---- MODULE Spec2Model ----
(***************************************************************************)
(* A model of the gesture recognition core of jneem/gesture (libgestures): *)
(* Frame/Snapshot (frame.rs), the geometry (geom.rs), the primitive        *)
(* recognizers (gestures/primitive.rs), the filters (filters.rs), the      *)
(* combinators (recognizer.rs), direction_swipe (gestures/compound.rs) and *)
(* the Manager (manager.rs), driven by touch events as main.rs does.       *)
(*                                                                         *)
(* Numbers.  f64 lengths are held in fixed point, Scale units per          *)
(* millimetre, so that the mean of up to four integer positions is exact.  *)
(* A length is compared with a threshold through its square (exact); only  *)
(* where the code adds or scales lengths (mean_dist, the adaptivity of     *)
(* NoRelativeMovement) is the square root taken, to 1/(Scale*Fine) mm.     *)
(* Angles are held in sixteenths of a degree (Deg(d)): atan2 of an         *)
(* integer vector is exact when it is a multiple of 45 degrees and         *)
(* otherwise lies strictly between two whole degrees k and k+1, and is     *)
(* then represented by k + 1/2.  Every angle the recognizers compare it    *)
(* with is a whole number of degrees, so every comparison is decided as    *)
(* on the exact value.                                                     *)
(***************************************************************************)
EXTENDS Integers, Sequences, FiniteSets, TLC

\* ------------------------------------------------------------------ bounds

\* Ticks (frame boundaries) the hand plans in one run.
MaxTicks == 4

\* --------------------------------------------------------------- constants

MAX_SLOTS == 10
Slots == 0 .. (MAX_SLOTS - 1)

\* Fixed point: units per millimetre (means of 1, 2, 3 or 4 fingers stay whole).
Scale == 3 * 4
\* Extra resolution of a square root.
Fine == 4 * 4

Mm(v) == v * Scale

\* Angles: Grain units to the half degree.  The angles the recognizers compute
\* are whole half degrees; the finer units hold the f64 values between them.
Grain == 2 * 4
Deg(d) == 2 * Grain * d
\* 2.0 * PI
FullTurn == Deg(360)
\* f64 arithmetic: every operation rounds its exact result to Precision
\* significant bits (to nearest, ties to even).  Every whole half degree up
\* to five full turns is exact.
Precision == 3 * 4

\* InitialAngle::new: threshold (mm).
InitialAngleThreshold == 5
\* StraightSwipe::new: min_length (mm), step (mm), angle_tolerance (degrees).
MinLength == 10
Step == 3
AngleTolerance == 20
\* direction_swipe: adaptivity(0.0), and the rounding threshold (degrees).
SwipeAdaptivityPct == 0
RoundThreshold == 25
\* NoMovement::new: threshold (mm).
NoMovementThreshold == 1
\* NoRelativeMovement::new: threshold (mm), adaptivity (per mm, in hundredths).
NoRelThreshold == 5
NoRelAdaptivityPct == 2

\* ---------------------------------------------------------------- geometry

Pt(x, y) == [x |-> x, y |-> y]
Zero == Pt(0, 0)
PAdd(a, b) == Pt(a.x + b.x, a.y + b.y)
PSub(a, b) == Pt(a.x - b.x, a.y - b.y)
PDiv(a, k) == Pt(a.x \div k, a.y \div k)
LenSq(a) == a.x * a.x + a.y * a.y
Abs(v) == IF v < 0 THEN -v ELSE v
Min(a, b) == IF a < b THEN a ELSE b
Max(a, b) == IF a < b THEN b ELSE a

\* diff.length() > mm   and   diff.length() >= mm, on the squares.
LongerThan(d, mm) == LenSq(d) > Mm(mm) * Mm(mm)
AtLeast(d, mm) == LenSq(d) >= Mm(mm) * Mm(mm)

RECURSIVE IsqrtIter(_, _, _)
IsqrtIter(n, lo, hi) ==
    IF lo >= hi THEN lo
    ELSE LET mid == (lo + hi + 1) \div 2
         IN  IF mid * mid <= n THEN IsqrtIter(n, mid, hi)
                               ELSE IsqrtIter(n, lo, mid - 1)

\* The square root of n, rounded down.
Isqrt(n) == IsqrtIter(n, 0, 46340)

\* length() in units of 1/(Scale*Fine) mm; the root is exact when d lies along
\* an axis.
Length(d) ==
    IF d.x = 0 THEN Abs(d.y) * Fine
    ELSE IF d.y = 0 THEN Abs(d.x) * Fine
    ELSE Isqrt(LenSq(d) * Fine * Fine)

\* tan(j degrees) * 10^6 for j = 1 .. 44.
TanMicro ==
    << 17455, 34921, 52408, 69927, 87489, 105104, 122785, 140541, 158384,
       176327, 194380, 212557, 230868, 249328, 267949, 286745, 305731,
       324920, 344328, 363970, 383864, 404026, 424475, 445229, 466308,
       487733, 509525, 531709, 554309, 577350, 600861, 624869, 649408,
       674509, 700208, 726543, 753554, 781286, 809784, 839100, 869287,
       900404, 932515, 965689 >>

\* atan(a/b) for 0 < a < b: strictly between k and k+1 degrees, held as k + 1/2.
OctantAngle(a, b) ==
    Deg(Cardinality({j \in 1 .. 44 : TanMicro[j] * b < a * 1000000})) + Deg(1) \div 2

\* atan2(ay, ax) for ax, ay >= 0: 0 to 90 degrees.
QuadrantAngle(ay, ax) ==
    IF ay = 0 THEN 0
    ELSE IF ax = 0 THEN Deg(90)
    ELSE IF ax = ay THEN Deg(45)
    ELSE IF ay < ax THEN OctantAngle(ay, ax)
    ELSE Deg(90) - OctantAngle(ax, ay)

\* f64::atan2(y, x): the angle of (x, y) in (-180, 180] degrees.
Atan2(y, x) ==
    LET q == QuadrantAngle(Abs(y), Abs(x))
        a == IF x >= 0 THEN q ELSE Deg(180) - q
    IN  IF y < 0 THEN -a ELSE a

\* Op of v, with v computed once: a `let` of the Rust code.
Let(v, Op(_)) == CHOOSE r \in { Op(x) : x \in { v } } : TRUE

Pow2(n) == 2 ^ n

\* The integer nearest to n / d (d > 0), a tie going to the even one.
RoundHalfEven(n, d) ==
    LET q == n \div d
        rem == n - q * d
    IN  IF 2 * rem < d THEN q
        ELSE IF 2 * rem > d THEN q + 1
        ELSE IF q % 2 = 0 THEN q ELSE q + 1

RECURSIVE UlpOf(_, _)
\* The spacing of the f64 values around magnitude a: the least power of two
\* e, from e on, with a < 2^Precision * e.
UlpOf(a, e) == IF a < Pow2(Precision) * e THEN e ELSE UlpOf(a, 2 * e)

\* The f64 nearest to the exact value x.
Fl(x) == Let(UlpOf(Abs(x), 1), LAMBDA e : e * RoundHalfEven(x, e))

RECURSIVE QuotFloor(_, _, _, _)
\* (n / d).floor() for f64 n and d > 0: the quotient n / d, which is
\* (n / d) * up / dn for the arguments as first given, is rounded to
\* Precision significant bits and then floored.
QuotFloor(n, d, up, dn) ==
    IF n = 0 THEN 0
    ELSE IF Abs(n) >= Pow2(Precision) * d THEN QuotFloor(n, 2 * d, 2 * up, dn)
    ELSE IF Abs(n) < Pow2(Precision - 1) * d THEN QuotFloor(2 * n, d, up, 2 * dn)
    ELSE (RoundHalfEven(n, d) * up) \div dn

\* Angle::from_radians: shift = (r / (2.0 * PI)).floor(), angle = r - 2.0 * PI * shift.
Angle_from_radians(r) ==
    Let(QuotFloor(r, FullTurn, 1, 1), LAMBDA shift : Fl(r - Fl(FullTurn * shift)))
\* Angle::from_degrees, for whole degrees.
Angle_from_degrees(d) == Angle_from_radians(Deg(d))
\* Angle - Angle
Angle_sub(a, b) == Angle_from_radians(Fl(a - b))
\* Angle::abs
Angle_abs(a) == Min(FullTurn - a, a)
\* Angle::interpolate with lambda = pct / 100.
Angle_interpolate(a, b, pct) ==
    LET far == Abs(a - b) > Deg(180)
        mine == IF far /\ a < b THEN a + FullTurn ELSE a
        other == IF far /\ ~(a < b) THEN b + FullTurn ELSE b
    IN  Angle_from_radians(((100 - pct) * mine + pct * other) \div 100)

Directions == {"Up", "Down", "Left", "Right"}

\* A from_angle that does not look for Right below a full turn.
Direction_from_angle_NoWrap(a, t) ==
    IF 0 <= a /\ a <= t THEN "Right"
    ELSE IF Deg(90) - t <= a /\ a <= Deg(90) + t THEN "Up"
    ELSE IF Deg(180) - t <= a /\ a <= Deg(180) + t THEN "Left"
    ELSE IF Deg(270) - t <= a /\ a <= Deg(270) + t THEN "Down"
    ELSE "None"

\* Direction::from_angle(angle, threshold t): "None" stands for Option::None.
Direction_from_angle(a, t) ==
    IF 0 <= a /\ a <= t THEN "Right"
    ELSE IF Deg(90) - t <= a /\ a <= Deg(90) + t THEN "Up"
    ELSE IF Deg(180) - t <= a /\ a <= Deg(180) + t THEN "Left"
    ELSE IF Deg(270) - t <= a /\ a <= Deg(270) + t THEN "Down"
    ELSE IF FullTurn - t <= a /\ a <= FullTurn THEN "Right"
    ELSE "None"

\* Direction::to_angle
Direction_to_angle(d) ==
    CASE d = "Right" -> Angle_from_degrees(0)
      [] d = "Up" -> Angle_from_degrees(90)
      [] d = "Left" -> Angle_from_degrees(180)
      [] d = "Down" -> Angle_from_degrees(270)

\* ---------------------------------------------------------------- Snapshot

\* Snapshot::new
Snapshot_new ==
    [num_down |-> 0,
     down |-> [i \in Slots |-> FALSE],
     pos |-> [i \in Slots |-> Zero]]

RECURSIVE SumOver(_, _, _)
\* The fold of a per-slot value over the slots i .. MAX_SLOTS-1 that `keep` holds.
SumOver(i, keep, val) ==
    IF i >= MAX_SLOTS THEN Zero
    ELSE IF keep[i] THEN PAdd(val[i], SumOver(i + 1, keep, val))
    ELSE SumOver(i + 1, keep, val)

\* Snapshot::mean_pos
mean_pos(s) ==
    IF s.num_down = 0 THEN Zero
    ELSE PDiv(SumOver(0, s.down, s.pos), s.num_down)

Both(s, o) == [i \in Slots |-> s.down[i] /\ o.down[i]]

\* Snapshot::mean_pos_filtered
mean_pos_filtered(s, o) ==
    LET count == Cardinality({i \in Slots : Both(s, o)[i]})
    IN  IF count = 0 THEN Zero
        ELSE PDiv(SumOver(0, Both(s, o), s.pos), count)

RECURSIVE SumDist(_, _, _)
\* The sum of the distances over the slots i .. MAX_SLOTS-1 down in both.
SumDist(i, s, o) ==
    IF i >= MAX_SLOTS THEN 0
    ELSE (IF s.down[i] /\ o.down[i] THEN Length(PSub(s.pos[i], o.pos[i])) ELSE 0)
         + SumDist(i + 1, s, o)

\* Snapshot::mean_dist, in units of 1/(Scale*Fine) mm.
mean_dist(s, o) ==
    IF s.num_down = 0 THEN 0 ELSE SumDist(0, s, o) \div s.num_down

\* mean_dist(..) > mm
MeanDistOver(s, o, mm) == mean_dist(s, o) > Mm(mm) * Fine

\* Snapshot::set_down
set_down(s, i, p) ==
    [num_down |-> IF s.down[i] THEN s.num_down ELSE s.num_down + 1,
     down |-> [s.down EXCEPT ![i] = TRUE],
     pos |-> [s.pos EXCEPT ![i] = p]]

\* Snapshot::set_up
set_up(s, i) ==
    [num_down |-> IF s.down[i] THEN s.num_down - 1 ELSE s.num_down,
     down |-> [s.down EXCEPT ![i] = FALSE],
     pos |-> s.pos]

RECURSIVE MergeFrom(_, _, _)
MergeFrom(i, s, o) ==
    IF i >= MAX_SLOTS THEN s
    ELSE IF ~s.down[i] /\ o.down[i] THEN MergeFrom(i + 1, set_down(s, i, o.pos[i]), o)
    ELSE IF s.down[i] /\ ~o.down[i] THEN MergeFrom(i + 1, set_up(s, i), o)
    ELSE MergeFrom(i + 1, s, o)

\* Snapshot::merge
merge(s, o) == MergeFrom(0, s, o)

\* Snapshot -= Point (every slot, down or not)
Snapshot_sub(s, p) == [s EXCEPT !.pos = [i \in Slots |-> PSub(s.pos[i], p)]]

\* pos * (1 - lambda) + other * lambda, lambda = num / den, rounded down.
Blend(a, b, num, den) ==
    Pt(a.x + ((b.x - a.x) * num) \div den, a.y + ((b.y - a.y) * num) \div den)

\* Snapshot::interpolate_to with lambda = num / den
interpolate_to(s, o, num, den) ==
    [s EXCEPT !.pos = [i \in Slots |->
        IF o.down[i] THEN Blend(s.pos[i], o.pos[i], num, den) ELSE s.pos[i]]]

\* ------------------------------------------------------------------- Frame

\* Frame::new
Frame_new ==
    [touch_down |-> FALSE, touch_up |-> FALSE,
     cur |-> Snapshot_new, last |-> Snapshot_new]

\* A TouchEvent: kind, slot and position in millimetres.
Event(kind, slot, x, y) == [kind |-> kind, slot |-> slot, x |-> x, y |-> y]
FrameEvent == Event("Frame", 0, 0, 0)
CancelEvent == Event("Cancel", 0, 0, 0)

\* A Down arm that takes a touch-down for a slot that is already down.
Frame_down_Again(f, ev) ==
    IF ev.slot >= MAX_SLOTS THEN f
    ELSE [f EXCEPT !.touch_down = TRUE,
                   !.cur.down[ev.slot] = TRUE,
                   !.cur.pos[ev.slot] = Pt(Mm(ev.x), Mm(ev.y)),
                   !.cur.num_down = @ + 1]

\* A Down arm that marks the finger down where the slot was last reported.
Frame_down_Stale(f, ev) ==
    IF ev.slot >= MAX_SLOTS THEN f
    ELSE IF f.cur.down[ev.slot] THEN f
    ELSE [f EXCEPT !.touch_down = TRUE,
                   !.cur.down[ev.slot] = TRUE,
                   !.cur.num_down = @ + 1]

\* Frame::update, the TouchEvent::Down arm.
Frame_down(f, ev) ==
    IF ev.slot >= MAX_SLOTS THEN f
    ELSE IF f.cur.down[ev.slot] THEN f
    ELSE [f EXCEPT !.touch_down = TRUE,
                   !.cur.down[ev.slot] = TRUE,
                   !.cur.pos[ev.slot] = Pt(Mm(ev.x), Mm(ev.y)),
                   !.cur.num_down = @ + 1]

\* An Up arm that clears the finger without setting touch_up.
Frame_up_Silent(f, ev) ==
    IF ~f.cur.down[ev.slot] THEN f
    ELSE [f EXCEPT !.cur.down[ev.slot] = FALSE,
                   !.cur.num_down = @ - 1]

\* An Up arm that takes a touch-up for a slot that is not down.
Frame_up_Always(f, ev) ==
    [f EXCEPT !.touch_up = TRUE,
              !.cur.down[ev.slot] = FALSE,
              !.cur.num_down = @ - 1]

\* Frame::update, the TouchEvent::Up arm.
Frame_up(f, ev) ==
    IF ~f.cur.down[ev.slot] THEN f
    ELSE [f EXCEPT !.touch_up = TRUE,
                   !.cur.down[ev.slot] = FALSE,
                   !.cur.num_down = @ - 1]

\* Frame::update, the TouchEvent::Motion arm.
Frame_motion(f, ev) == [f EXCEPT !.cur.pos[ev.slot] = Pt(Mm(ev.x), Mm(ev.y))]

\* Frame::update
Frame_update(f, ev) ==
    CASE ev.kind = "Down" -> Frame_down(f, ev)
      [] ev.kind = "Up" -> Frame_up(f, ev)
      [] ev.kind = "Motion" -> Frame_motion(f, ev)
      [] ev.kind = "Cancel" -> f
      [] ev.kind = "Frame" -> f

\* Frame::update: does indexing cur.down or cur.pos with the event's slot panic?
\* (The Down arm tests slot >= MAX_SLOTS first; the Up and Motion arms do not.)
Frame_panics(ev) == ev.kind \in {"Up", "Motion"} /\ ev.slot >= MAX_SLOTS

\* An advance that leaves the edge flags as they are.
Frame_advance_KeepFlags(f) == [f EXCEPT !.last = f.cur]

\* Frame::advance
Frame_advance(f) == [f EXCEPT !.last = f.cur, !.touch_up = FALSE, !.touch_down = FALSE]

\* --------------------------------------------------------------- RecResult

\* RecResult: Continuing, Succeeded(val), Failed.  "Panic" stands for a panic
\* unwinding through the callers (Option::unwrap on None, a failed assert!).
NoVal == "-"
Continuing == [tag |-> "Continuing", val |-> NoVal]
Failed == [tag |-> "Failed", val |-> NoVal]
Succeeded(v) == [tag |-> "Succeeded", val |-> v]
Panic == [tag |-> "Panic", val |-> NoVal]

\* One call of init or update on a node of the recognizer tree, with what
\* it returned (history only: the code keeps no such record).
Call(node, op, res) == [node |-> node, op |-> op, res |-> res]

\* What an update of a node yields: the node's new state, the RecResult, the calls made.
Out(st, res, tr) == [st |-> st, res |-> res, tr |-> tr]

\* ------------------------------------------------------------- primitives

\* An NFingers that takes n or more fingers for n.
NFingers_AtLeast(n, f) ==
    IF f.touch_up THEN Failed
    ELSE IF f.cur.num_down >= n THEN Succeeded(NoVal)
    ELSE Continuing

\* An NFingers that does not mind a lifted finger.
NFingers_IgnoreLift(n, f) ==
    IF f.cur.num_down > n THEN Failed
    ELSE IF f.cur.num_down = n THEN Succeeded(NoVal)
    ELSE Continuing

\* An NFingers that is content with n fingers or more.
NFingers_update_AtLeast(n, f) ==
    IF f.touch_up THEN Failed
    ELSE IF f.cur.num_down >= n THEN Succeeded(NoVal)
    ELSE Continuing

\* NFingers::update
NFingers_update(n, f) ==
    IF f.touch_up \/ f.cur.num_down > n THEN Failed
    ELSE IF f.cur.num_down = n THEN Succeeded(NoVal)
    ELSE Continuing

\* A FingersUp that takes no notice of fingers coming down.
FingersUp_IgnoreDown(f) ==
    IF f.cur.num_down = 0 THEN Succeeded(NoVal) ELSE Continuing

\* A FingersUp that is content with any finger lifting.
FingersUp_update_OnLift(f) ==
    IF f.touch_down THEN Failed
    ELSE IF f.touch_up THEN Succeeded(NoVal)
    ELSE Continuing

\* FingersUp::update
FingersUp_update(f) ==
    IF f.touch_down THEN Failed
    ELSE IF f.cur.num_down = 0 THEN Succeeded(NoVal)
    ELSE Continuing

\* InitialAngle::init: the new init_pos.
InitialAngle_init(f) == mean_pos(f.cur)

\* The angle of a movement without inverting the y axis.
MoveAngle_Upright(diff) == Angle_from_radians(Atan2(diff.y, diff.x))

\* The angle both InitialAngle and StraightSwipe take of a movement:
\* Angle::from_radians((-diff.y).atan2(diff.x)).
MoveAngle(diff) == Angle_from_radians(Atan2(-diff.y, diff.x))

\* InitialAngle::update (init_pos is not changed by it).
InitialAngle_update(init_pos, f) ==
    IF f.touch_up \/ f.touch_down THEN Failed
    ELSE LET diff == PSub(mean_pos(f.cur), init_pos)
         IN  IF LongerThan(diff, InitialAngleThreshold)
             THEN Succeeded([pt |-> init_pos, angle |-> MoveAngle(diff)])
             ELSE Continuing

\* StraightSwipe::new
StraightSwipe_new == [init_pos |-> Zero, last_pos |-> Zero, angle |-> Angle_from_radians(0)]

\* StraightSwipe::init
StraightSwipe_init(init) == [init_pos |-> init.pt, last_pos |-> init.pt, angle |-> init.angle]

\* StraightSwipe::outcome
StraightSwipe_outcome(ss, reason, f) ==
    [reason |-> reason, init_pos |-> ss.init_pos,
     final_pos |-> mean_pos(f.cur), angle |-> ss.angle]

\* StraightSwipe::update, the arm of a tick with a lifted finger.
StraightSwipe_lifted(ss, f) ==
    LET diff == PSub(mean_pos(f.cur), ss.init_pos)
    IN  IF LongerThan(diff, MinLength)
        THEN Succeeded(StraightSwipe_outcome(ss, "LiftedFinger", f))
        ELSE Failed

\* A StraightSwipe that samples the angle only beyond a step.
StraightSwipe_moved_Strict(ss, f) ==
    LET diff == PSub(mean_pos(f.cur), ss.last_pos)
        stepped == [ss EXCEPT !.last_pos = mean_pos(f.cur)]
        angle == MoveAngle(diff)
    IN  IF ~LongerThan(diff, Step) THEN [st |-> ss, res |-> Continuing]
        ELSE IF Angle_abs(Angle_sub(angle, ss.angle)) > Deg(AngleTolerance)
        THEN IF LongerThan(PSub(mean_pos(f.cur), ss.init_pos), MinLength)
             THEN [st |-> stepped,
                   res |-> Succeeded(StraightSwipe_outcome(stepped, "ChangedAngle", f))]
             ELSE [st |-> stepped, res |-> Failed]
        ELSE [st |-> stepped, res |-> Continuing]

\* StraightSwipe::update, the arm of a tick without touch_down or touch_up:
\* [st, res].  lambda = min(|diff| * adaptivity, 1.0), in hundredths.
StraightSwipe_moved(ss, f) ==
    LET diff == PSub(mean_pos(f.cur), ss.last_pos)
        stepped == [ss EXCEPT !.last_pos = mean_pos(f.cur)]
        angle == MoveAngle(diff)
        lambda == Min((Length(diff) * SwipeAdaptivityPct) \div (Scale * Fine), 100)
    IN  IF ~AtLeast(diff, Step) THEN [st |-> ss, res |-> Continuing]
        ELSE IF Angle_abs(Angle_sub(angle, ss.angle)) > Deg(AngleTolerance)
        THEN IF LongerThan(PSub(mean_pos(f.cur), ss.init_pos), MinLength)
             THEN [st |-> stepped,
                   res |-> Succeeded(StraightSwipe_outcome(stepped, "ChangedAngle", f))]
             ELSE [st |-> stepped, res |-> Failed]
        ELSE [st |-> [stepped EXCEPT !.angle = Angle_interpolate(ss.angle, angle, lambda)],
              res |-> Continuing]

\* A StraightSwipe that takes a lift for the end of the swipe only if it
\* leaves no finger down.
StraightSwipe_update_WholeHand(ss, f) ==
    IF f.touch_down \/ (f.touch_up /\ f.cur.num_down > 0) THEN [st |-> ss, res |-> Failed]
    ELSE IF f.touch_up THEN [st |-> ss, res |-> StraightSwipe_lifted(ss, f)]
    ELSE StraightSwipe_moved(ss, f)

\* StraightSwipe::update: [st, res].
StraightSwipe_update(ss, f) ==
    IF f.touch_down THEN [st |-> ss, res |-> Failed]
    ELSE IF f.touch_up THEN [st |-> ss, res |-> StraightSwipe_lifted(ss, f)]
    ELSE StraightSwipe_moved(ss, f)

\* ----------------------------------------------------------------- filters

\* NoMovement::init: the new init_pos.
NoMovement_init(f) == f.cur

\* A NoMovement that takes the fingers' current positions for the next bound.
NoMovement_update_Follow(init_pos, f) ==
    IF MeanDistOver(f.cur, init_pos, NoMovementThreshold)
    THEN [st |-> init_pos, passed |-> FALSE]
    ELSE [st |-> f.cur, passed |-> TRUE]

\* NoMovement::update: [st, passed].
NoMovement_update(init_pos, f) ==
    IF MeanDistOver(f.cur, init_pos, NoMovementThreshold)
    THEN [st |-> init_pos, passed |-> FALSE]
    ELSE [st |-> merge(init_pos, f.cur), passed |-> TRUE]

\* NoRelativeMovement::init: the new init_rel_pos.
NoRelativeMovement_init(f) == Snapshot_sub(f.cur, mean_pos(f.cur))

\* A NoRelativeMovement that compares the positions as they are on the pad.
NoRelativeMovement_update_Absolute(init_rel_pos, f) ==
    LET mean_diff == PSub(mean_pos(f.cur), mean_pos(f.last))
        den == 100 * Scale * Fine
    IN  IF MeanDistOver(f.cur, init_rel_pos, NoRelThreshold)
        THEN [st |-> init_rel_pos, passed |-> FALSE]
        ELSE [st |-> interpolate_to(init_rel_pos, f.cur,
                         Min(Length(mean_diff) * NoRelAdaptivityPct, den), den),
              passed |-> TRUE]

\* NoRelativeMovement::update: [st, passed].
NoRelativeMovement_update(init_rel_pos, f) ==
    LET changed == f.touch_down \/ f.touch_up
        mean_diff == PSub(mean_pos(f.cur), mean_pos(f.last))
        mean_diff_corrected ==
            PSub(mean_pos_filtered(f.cur, f.last), mean_pos_filtered(f.last, f.cur))
        offset == PSub(mean_diff, mean_diff_corrected)
        den == 100 * Scale * Fine
    IN  Let(Snapshot_sub(f.cur, mean_pos(f.cur)), LAMBDA rel_pos :
        Let(IF changed THEN merge(Snapshot_sub(init_rel_pos, offset), rel_pos)
            ELSE init_rel_pos, LAMBDA merged :
            IF MeanDistOver(rel_pos, merged, NoRelThreshold)
            THEN [st |-> merged, passed |-> FALSE]
            ELSE [st |-> interpolate_to(merged, rel_pos,
                             Min(Length(mean_diff) * NoRelAdaptivityPct, den), den),
                  passed |-> TRUE]))

FilterRes(passed) == IF passed THEN "Passed" ELSE "Failed"

\* --------------------------------------------------------- direction_swipe

(***************************************************************************)
(* direction_swipe(n) is one value built from the combinators of           *)
(* recognizer.rs; its state is the record below, one field per stateful    *)
(* node of the tree:                                                       *)
(*   Fingers  = NFingers::new(n).constrain(NoMovement::new())        nm    *)
(*   Rounded  = InitialAngle::new().flat_map_outcome(round_angle)    ia    *)
(*   Straight = StraightSwipe::new().adaptivity(0.0).split_input(..) ss,ssc*)
(*   Line     = Rounded.and_then(Straight)                           cs    *)
(*   Shape    = Line.constrain(NoRelativeMovement::new())            nrm   *)
(*   Lifted   = Shape.filter_outcome(reason == LiftedFinger)               *)
(*   swipe    = Lifted.map_outcome(|x| x.0)                                *)
(*   up       = FingersUp::new().split_input(..).map_outcome(..)     upc   *)
(*   Armed    = Fingers.and_then(swipe)                              c1    *)
(*   direction_swipe = Armed.and_then(up)                            c2    *)
(* id names the instance (the Box the Manager holds).                      *)
(***************************************************************************)

\* direction_swipe(num_fingers), as constructed (Composition::new, SplitInput
\* with cached: None, the primitives' new).
direction_swipe_new(id, n) ==
    [id |-> id, n |-> n,
     nm |-> Snapshot_new,
     c1 |-> FALSE,
     ia |-> Zero,
     cs |-> FALSE,
     ssc |-> "None",
     ss |-> StraightSwipe_new,
     nrm |-> Snapshot_new,
     c2 |-> FALSE,
     upc |-> "None"]

\* Constraint::init for Fingers: NFingers::init (nothing), then NoMovement::init.
Fingers_init(r, f) ==
    [st |-> [r EXCEPT !.nm = NoMovement_init(f)],
     tr |-> << Call("NFingers", "init", NoVal), Call("NoMovement", "init", NoVal) >>]

\* A Constraint that updates its recognizer before its filter.
Fingers_update_RecFirst(r, f) ==
    Let(NFingers_update(r.n, f), LAMBDA res :
        Let(NoMovement_update(r.nm, f), LAMBDA fil :
            Out([r EXCEPT !.nm = fil.st], IF fil.passed THEN res ELSE Failed,
                << Call("NFingers", "update", res.tag),
                   Call("NoMovement", "update", FilterRes(fil.passed)) >>)))

\* Constraint::update for Fingers: the filter first, the recognizer only if it passed.
Fingers_update(r, f) ==
    Let(NoMovement_update(r.nm, f), LAMBDA fil :
        IF ~fil.passed
        THEN Out([r EXCEPT !.nm = fil.st], Failed,
                 << Call("NoMovement", "update", "Failed") >>)
        ELSE Let(NFingers_update(r.n, f), LAMBDA res :
                 Out([r EXCEPT !.nm = fil.st], res,
                     << Call("NoMovement", "update", "Passed"),
                        Call("NFingers", "update", res.tag) >>)))

\* A round_angle that takes every angle for the nearest cardinal direction.
round_angle_Nearest(v) ==
    Succeeded([pt |-> v.pt, dir |-> Direction_from_angle(v.angle, Deg(45))])

\* direction_swipe::round_angle
round_angle(v) ==
    LET d == Direction_from_angle(v.angle, Deg(RoundThreshold))
    IN  IF d = "None" THEN Failed ELSE Succeeded([pt |-> v.pt, dir |-> d])

\* FlatMapOutcome::init for Rounded.
Rounded_init(r, f) ==
    [st |-> [r EXCEPT !.ia = InitialAngle_init(f)],
     tr |-> << Call("InitialAngle", "init", NoVal) >>]

\* FlatMapOutcome::update for Rounded: rec.update(frame).and_then(f).
Rounded_update(r, f) ==
    Let(InitialAngle_update(r.ia, f), LAMBDA inner :
        Let(IF inner.tag = "Succeeded" THEN round_angle(inner.val) ELSE inner, LAMBDA res :
            Out(r, res, << Call("InitialAngle", "update", inner.tag),
                           Call("Rounded", "update", res.tag) >>)))

\* A SplitInput whose init does not store the part of the input it is to
\* hand back.
Straight_init_NoCache(r, input, f) ==
    [st |-> [r EXCEPT !.ss = StraightSwipe_init(
                                 [pt |-> input.pt, angle |-> Direction_to_angle(input.dir)])],
     tr |-> << Call("StraightSwipe", "init", NoVal) >>]

\* SplitInput::init for Straight: f = |(pt, d)| (d, (pt, d.to_angle())).
Straight_init(r, input, f) ==
    [st |-> [r EXCEPT !.ssc = input.dir,
                      !.ss = StraightSwipe_init(
                                 [pt |-> input.pt, angle |-> Direction_to_angle(input.dir)])],
     tr |-> << Call("StraightSwipe", "init", NoVal) >>]

\* SplitInput::update for Straight: rec.update(frame).map(|x| (cached.take().unwrap(), x)).
Straight_update(r, f) ==
    Let(StraightSwipe_update(r.ss, f), LAMBDA inner :
        LET st == [r EXCEPT !.ss = inner.st]
            calls == << Call("StraightSwipe", "update", inner.res.tag) >>
        IN  IF inner.res.tag # "Succeeded" THEN Out(st, inner.res, calls)
            ELSE IF r.ssc = "None" THEN Out(st, Panic, calls)
            ELSE Out([st EXCEPT !.ssc = "None"],
                     Succeeded([dir |-> r.ssc, outcome |-> inner.res.val]), calls))

\* Composition::init for Line.
Line_init(r, f) ==
    Let(Rounded_init(r, f), LAMBDA a :
        [st |-> [a.st EXCEPT !.cs = FALSE], tr |-> a.tr])

\* Composition::update for Line.
Line_update(r, f) ==
    IF r.cs THEN Straight_update(r, f)
    ELSE Let(Rounded_update(r, f), LAMBDA a :
             IF a.res.tag = "Succeeded"
             THEN Let(Straight_init([a.st EXCEPT !.cs = TRUE], a.res.val, f), LAMBDA b :
                      Out(b.st, Continuing, a.tr \o b.tr))
             ELSE a)

\* Constraint::init for Shape: Line, then NoRelativeMovement.
Shape_init(r, f) ==
    Let(Line_init(r, f), LAMBDA a :
        [st |-> [a.st EXCEPT !.nrm = NoRelativeMovement_init(f)],
         tr |-> a.tr \o << Call("NoRelativeMovement", "init", NoVal) >>])

\* Constraint::update for Shape.
Shape_update(r, f) ==
    Let(NoRelativeMovement_update(r.nrm, f), LAMBDA fil :
        IF ~fil.passed
        THEN Out([r EXCEPT !.nrm = fil.st], Failed,
                 << Call("NoRelativeMovement", "update", "Failed") >>)
        ELSE Let(Line_update([r EXCEPT !.nrm = fil.st], f), LAMBDA a :
                 Out(a.st, a.res,
                     << Call("NoRelativeMovement", "update", "Passed") >> \o a.tr)))

\* A FilterOutcome whose predicate accepts every outcome.
Lifted_update_Unfiltered(r, f) == Shape_update(r, f)

\* FilterOutcome::update for Lifted: |&(_, ref x)| x.reason == LiftedFinger.
Lifted_update(r, f) ==
    Let(Shape_update(r, f), LAMBDA a :
        IF a.res.tag = "Succeeded" /\ a.res.val.outcome.reason # "LiftedFinger"
        THEN Out(a.st, Failed, a.tr)
        ELSE a)

\* MapOutcome::init, FilterOutcome::init for swipe: both only call rec.init.
swipe_init(r, f) == Shape_init(r, f)

\* MapOutcome::update for swipe: |x| x.0.
swipe_update(r, f) ==
    Let(Lifted_update(r, f), LAMBDA a :
        LET res == IF a.res.tag = "Succeeded" THEN Succeeded(a.res.val.dir) ELSE a.res
        IN  Out(a.st, res, a.tr \o << Call("swipe", "update", res.tag) >>))

\* SplitInput::init for up (|d| (d, ())), under MapOutcome::init.
up_init(r, d, f) ==
    [st |-> [r EXCEPT !.upc = d], tr |-> << Call("FingersUp", "init", NoVal) >>]

\* SplitInput::update and MapOutcome::update for up: |(d, _)| d.
up_update(r, f) ==
    Let(FingersUp_update(f), LAMBDA inner :
        LET calls == << Call("FingersUp", "update", inner.tag) >>
        IN  IF inner.tag # "Succeeded" THEN Out(r, inner, calls)
            ELSE IF r.upc = "None" THEN Out(r, Panic, calls)
            ELSE Out([r EXCEPT !.upc = "None"], Succeeded(r.upc), calls))

\* A Composition whose init leaves on_rec2 as it is.
Armed_init_KeepStage(r, f) == Fingers_init(r, f)

\* Composition::init for Armed.
Armed_init(r, f) ==
    Let(Fingers_init(r, f), LAMBDA a :
        [st |-> [a.st EXCEPT !.c1 = FALSE], tr |-> a.tr])

\* A Composition that does not remember that its first recognizer is done.
Armed_update_Forgetful(r, f) ==
    IF r.c1 THEN swipe_update(r, f)
    ELSE Let(Fingers_update(r, f), LAMBDA a :
             IF a.res.tag = "Succeeded"
             THEN Let(swipe_init(a.st, f), LAMBDA b :
                      Out(b.st, Continuing, a.tr \o b.tr))
             ELSE a)

\* Composition::update for Armed.
Armed_update(r, f) ==
    IF r.c1 THEN swipe_update(r, f)
    ELSE Let(Fingers_update(r, f), LAMBDA a :
             IF a.res.tag = "Succeeded"
             THEN Let(swipe_init([a.st EXCEPT !.c1 = TRUE], f), LAMBDA b :
                      Out(b.st, Continuing, a.tr \o b.tr))
             ELSE a)

\* Composition::init for direction_swipe.
direction_swipe_init(r, f) ==
    Let(Armed_init(r, f), LAMBDA a :
        [st |-> [a.st EXCEPT !.c2 = FALSE], tr |-> a.tr])

\* A Composition that updates its second recognizer on the tick it
\* initializes it, and returns what that gives.
direction_swipe_update_Eager(r, f) ==
    IF r.c2 THEN up_update(r, f)
    ELSE Let(Armed_update(r, f), LAMBDA a :
             IF a.res.tag = "Succeeded"
             THEN Let(up_init([a.st EXCEPT !.c2 = TRUE], a.res.val, f), LAMBDA b :
                      Let(up_update(b.st, f), LAMBDA c :
                          Out(c.st, c.res, a.tr \o b.tr \o c.tr)))
             ELSE a)

\* Composition::update for direction_swipe.
direction_swipe_update(r, f) ==
    IF r.c2 THEN up_update(r, f)
    ELSE Let(Armed_update(r, f), LAMBDA a :
             IF a.res.tag = "Succeeded"
             THEN Let(up_init([a.st EXCEPT !.c2 = TRUE], a.res.val, f), LAMBDA b :
                      Out(b.st, Continuing, a.tr \o b.tr))
             ELSE a)

\* The gesture main.rs makes of a direction.
Swipe(n, d) == [num_fingers |-> n, direction |-> d]
NoGesture == Swipe(0, "None")

\* main.rs: direction_swipe(num_fingers).map_outcome(|direction| Gesture::Swipe {..}),
\* the recognizer the Manager owns: init.
Recognizer_init(r, f) ==
    Let(direction_swipe_init(r, f), LAMBDA a :
        [st |-> a.st, tr |-> a.tr \o << Call("Recognizer", "init", NoVal) >>])

\* ... and update.
Recognizer_update(r, f) ==
    Let(direction_swipe_update(r, f), LAMBDA a :
        LET res == IF a.res.tag = "Succeeded" THEN Succeeded(Swipe(r.n, a.res.val))
                   ELSE a.res
        IN  Out(a.st, res, a.tr \o << Call("Recognizer", "update", res.tag) >>))

\* ----------------------------------------------------------------- Manager

\* Manager::new
Manager_new == [active |-> << >>, inactive |-> << >>, buf |-> << >>, frame |-> Frame_new]

\* A push that files the new recognizer under buf.
Manager_push_Buf(m, r) == [m EXCEPT !.buf = Append(@, r)]

\* A push that files the new recognizer under inactive.
Manager_push_Inactive(m, r) == [m EXCEPT !.inactive = Append(@, r)]

\* Manager::push
Manager_push(m, r) == [m EXCEPT !.active = Append(@, r)]

\* The calls of one recognizer, each marked with the instance that made it.
Tagged(id, tr) ==
    [i \in 1 .. Len(tr) |-> [id |-> id, node |-> tr[i].node, op |-> tr[i].op, res |-> tr[i].res]]

\* A Manager that moves the inactive recognizers into active without init.
Rearm_NoInit(recs, f, i) == [recs |-> recs, tr |-> << >>]

RECURSIVE Rearm(_, _, _)
\* Manager::update: for r in &mut self.inactive { r.init((), &self.frame) }.
\* [recs, tr]: the recognizers after init, and the calls made.
Rearm(recs, f, i) ==
    IF i > Len(recs) THEN [recs |-> << >>, tr |-> << >>]
    ELSE Let(Recognizer_init(recs[i], f), LAMBDA a :
             Let(Rearm(recs, f, i + 1), LAMBDA rest :
                 [recs |-> << a.st >> \o rest.recs,
                  tr |-> Tagged(recs[i].id, a.tr) \o rest.tr]))

\* A dispatch loop that keeps a failed recognizer among the continuing ones.
Route_KeepFailed(acc, rec, f) ==
    Let(Recognizer_update(rec, f), LAMBDA a :
        LET tr == acc.tr \o Tagged(rec.id, a.tr)
        IN  CASE a.res.tag \in {"Continuing", "Failed"} ->
                     [acc EXCEPT !.buf = Append(@, a.st), !.tr = tr]
              [] a.res.tag = "Succeeded" ->
                     [acc EXCEPT !.ret = a.res.val, !.by = rec.id,
                                 !.inactive = Append(@, a.st), !.tr = tr]
              [] a.res.tag = "Panic" ->
                     [acc EXCEPT !.panic = TRUE, !.tr = tr])

\* A dispatch loop in which the first recognizer to succeed keeps the return value.
Route_FirstWins(acc, rec, f) ==
    Let(Recognizer_update(rec, f), LAMBDA a :
        LET tr == acc.tr \o Tagged(rec.id, a.tr)
        IN  CASE a.res.tag = "Continuing" ->
                     [acc EXCEPT !.buf = Append(@, a.st), !.tr = tr]
              [] a.res.tag = "Failed" ->
                     [acc EXCEPT !.inactive = Append(@, a.st), !.tr = tr]
              [] a.res.tag = "Succeeded" ->
                     [acc EXCEPT !.ret = IF acc.by = 0 THEN a.res.val ELSE @,
                                 !.by = IF acc.by = 0 THEN rec.id ELSE @,
                                 !.inactive = Append(@, a.st), !.tr = tr]
              [] a.res.tag = "Panic" ->
                     [acc EXCEPT !.panic = TRUE, !.tr = tr])

\* A dispatch loop that drops a failed recognizer instead of retiring it.
Route_DropFailed(acc, rec, f) ==
    Let(Recognizer_update(rec, f), LAMBDA a :
        LET tr == acc.tr \o Tagged(rec.id, a.tr)
        IN  CASE a.res.tag = "Continuing" ->
                     [acc EXCEPT !.buf = Append(@, a.st), !.tr = tr]
              [] a.res.tag = "Failed" ->
                     [acc EXCEPT !.tr = tr]
              [] a.res.tag = "Succeeded" ->
                     [acc EXCEPT !.ret = a.res.val, !.by = rec.id,
                                 !.inactive = Append(@, a.st), !.tr = tr]
              [] a.res.tag = "Panic" ->
                     [acc EXCEPT !.panic = TRUE, !.tr = tr])

\* Manager::update: one turn of the loop over self.active.drain(..), on `acc`:
\* [buf, inactive, ret, by, tr, panic]; by names the recognizer ret came from.
Route(acc, rec, f) ==
    Let(Recognizer_update(rec, f), LAMBDA a :
        LET tr == acc.tr \o Tagged(rec.id, a.tr)
        IN  CASE a.res.tag = "Continuing" ->
                     [acc EXCEPT !.buf = Append(@, a.st), !.tr = tr]
              [] a.res.tag = "Failed" ->
                     [acc EXCEPT !.inactive = Append(@, a.st), !.tr = tr]
              [] a.res.tag = "Succeeded" ->
                     [acc EXCEPT !.ret = a.res.val, !.by = rec.id,
                                 !.inactive = Append(@, a.st), !.tr = tr]
              [] a.res.tag = "Panic" ->
                     [acc EXCEPT !.panic = TRUE, !.tr = tr])

RECURSIVE Dispatch(_, _, _, _)
\* Manager::update: for mut rec in self.active.drain(..) { match rec.update(..) .. }.
Dispatch(recs, f, i, acc) ==
    IF i > Len(recs) \/ acc.panic THEN acc
    ELSE Let(Route(acc, recs[i], f), LAMBDA next : Dispatch(recs, f, i + 1, next))

\* Manager::update: does this frame boundary open a gesture window?
Opens(f) == f.last.num_down = 0 /\ f.cur.num_down > 0

\* A Manager that, when a window opens, initializes the recognizers in active too.
Manager_tick_RearmAll(m, f) ==
    Let(IF Opens(f) THEN Rearm(m.active \o m.inactive, f, 1)
        ELSE [recs |-> m.active, tr |-> << >>],
        LAMBDA armed :
        Let(Dispatch(armed.recs, f, 1,
                     [buf |-> m.buf,
                      inactive |-> IF Opens(f) THEN << >> ELSE m.inactive,
                      ret |-> NoGesture, by |-> 0, tr |-> armed.tr, panic |-> FALSE]),
            LAMBDA d :
            [man |-> [active |-> d.buf, inactive |-> d.inactive, buf |-> << >>,
                      frame |-> Frame_advance(f)],
             ret |-> d.ret, by |-> d.by, tr |-> d.tr, panic |-> d.panic]))

\* Manager::update on a TouchEvent::Frame, the frame already updated:
\* [man, ret, by, tr, panic].
Manager_tick(m, f) ==
    Let(IF Opens(f) THEN Rearm(m.inactive, f, 1) ELSE [recs |-> << >>, tr |-> << >>],
        LAMBDA armed :
        Let(Dispatch(m.active \o armed.recs, f, 1,
                     [buf |-> m.buf,
                      inactive |-> IF Opens(f) THEN << >> ELSE m.inactive,
                      ret |-> NoGesture, by |-> 0, tr |-> armed.tr, panic |-> FALSE]),
            LAMBDA d :
            [man |-> [active |-> d.buf, inactive |-> d.inactive, buf |-> << >>,
                      frame |-> Frame_advance(f)],
             ret |-> d.ret, by |-> d.by, tr |-> d.tr, panic |-> d.panic]))

\* A Manager that dispatches on every event, not only on frame boundaries.
Manager_update_Eager(m, ev) ==
    Let(Frame_update(m.frame, ev), LAMBDA f : Manager_tick(m, f))

\* Manager::update: [man, ret, by, tr, panic]; ret = NoGesture stands for None.
Manager_update(m, ev) ==
    IF Frame_panics(ev)
    THEN [man |-> m, ret |-> NoGesture, by |-> 0, tr |-> << >>, panic |-> TRUE]
    ELSE Let(Frame_update(m.frame, ev), LAMBDA f :
             IF ev.kind = "Frame" THEN Manager_tick(m, f)
             ELSE [man |-> [m EXCEPT !.frame = f], ret |-> NoGesture, by |-> 0,
                   tr |-> << >>, panic |-> FALSE])

\* ------------------------------------------------------------ state machine

(***************************************************************************)
(* The program state is man (the Manager), ret (what the last              *)
(* Manager::update returned; NoGesture stands for None) and panicked (an   *)
(* unwrap or index panic ended the program).  The touchpad and the hand on *)
(* it are the environment: queue holds the events the device has produced  *)
(* and main.rs's loop has not yet handed to Manager::update, hand is the   *)
(* offset of the hand from its rest position, plan the movement the hand   *)
(* makes in this tick.                                                     *)
(* History variables: trace (the init and update calls of the last         *)
(* Manager::update), winner (the id of the recognizer whose output it      *)
(* returned, 0 if it returned None), lastEv (the kind of the event it was given), regs     *)
(* (the finger counts registered, in order), ticks (frame boundaries so    *)
(* far) and log (per frame boundary: the plan, the value returned, the     *)
(* calls made, the finger count and mean position of the snapshot, whether *)
(* the boundary opened a window, and the ids left in active and inactive), *)
(* edges (did an event since the last frame boundary add a finger to the   *)
(* presence set, did one remove a finger from it) and given (the event     *)
(* last handed to Manager::update).                                        *)
(* For the library functions called on their own (the last specification): *)
(* arg, the function and its arguments, and val, what it returned.         *)
(***************************************************************************)
VARIABLES man, ret, panicked, queue, hand, plan, trace, winner, lastEv, regs, ticks, log,
          edges, given, arg, val

vars ==
    << man, ret, panicked, queue, hand, plan, trace, winner, lastEv, regs, ticks, log,
       edges, given, arg, val >>

\* The slots the hand uses, the recognizers' finger counts as they may be
\* registered, the offsets (mm) the hand takes, and how many fingers land
\* together on an empty pad.
FingerSlots == 0 .. 3
Configs == { << 3 >>, << 3, 3 >>, << 3, 4 >> }
Offsets == { Pt(0, 0), Pt(3, 0), Pt(12, 0), Pt(3, 12) }
LandCounts == { 3, 4 }

\* Finger s of a hand at offset o touches at (10 s + o.x, o.y).
Place(s, o) == Pt(10 * s + o.x, o.y)

Plan(kind, k, o) == [kind |-> kind, k |-> k, o |-> o]
NoPlan == Plan("None", 0, Zero)

RECURSIVE Ascending(_)
\* The slots of S in ascending order.
Ascending(S) ==
    IF S = {} THEN << >>
    ELSE LET m == CHOOSE s \in S : \A t \in S : s <= t
         IN  << m >> \o Ascending(S \ {m})

\* The k lowest slots of S.
Lowest(S, k) == { Ascending(S)[i] : i \in 1 .. k }

\* One event of the given kind per slot of S, in ascending order, for a hand at o.
Events(kind, S, o) ==
    [i \in 1 .. Cardinality(S) |->
        Event(kind, Ascending(S)[i],
              IF kind = "Up" THEN 0 ELSE Place(Ascending(S)[i], o).x,
              IF kind = "Up" THEN 0 ELSE Place(Ascending(S)[i], o).y)]

\* The events of one tick in which the hand, with the fingers `downs` on the
\* pad, carries out plan p: k fingers land on the lowest free slots, or the
\* fingers that are down move together to offset o, or the k lowest fingers
\* lift, or nothing happens; the device then closes the frame.
PlanEvents(p, downs) ==
    ( CASE p.kind = "Land" -> Events("Down", Lowest(FingerSlots \ downs, p.k), p.o)
        [] p.kind = "Move" -> Events("Motion", downs, p.o)
        [] p.kind = "Lift" -> Events("Up", Lowest(downs, p.k), p.o)
        [] OTHER -> << >> ) \o << FrameEvent >>

\* The fingers on the pad after plan p.
PlanDowns(p, downs) ==
    CASE p.kind = "Land" -> downs \cup Lowest(FingerSlots \ downs, p.k)
      [] p.kind = "Lift" -> downs \ Lowest(downs, p.k)
      [] OTHER -> downs

NoEdges == [down |-> FALSE, up |-> FALSE]
NoEvent == Event("None", 0, 0, 0)
\* No function called on its own, nothing returned.
NoCall == [fn |-> "none"]

Init ==
    /\ man = Manager_new
    /\ ret = NoGesture
    /\ panicked = FALSE
    /\ queue = << >>
    /\ hand = Zero
    /\ plan = NoPlan
    /\ trace = << >>
    /\ winner = 0
    /\ lastEv = "None"
    /\ regs = << >>
    /\ ticks = 0
    /\ log = << >>
    /\ edges = NoEdges
    /\ given = NoEvent
    /\ arg = NoCall
    /\ val = NoCall

DownSlots == { s \in FingerSlots : man.frame.cur.down[s] }

\* Manager::push of a direction_swipe recognizer before the event loop, as
\* main.rs does for each configured finger count (the library itself does not
\* forbid pushing the same count twice).
Register(n) ==
    /\ ~panicked /\ queue = << >> /\ ticks = 0 /\ plan = NoPlan
    /\ \E c \in Configs : \E i \in 1 .. Len(c) : SubSeq(c, 1, i) = Append(regs, n)
    /\ man' = Manager_push(man, direction_swipe_new(Len(regs) + 1, n))
    /\ regs' = Append(regs, n)
    /\ lastEv' = "Push"
    /\ trace' = << >>
    /\ winner' = 0
    /\ ret' = NoGesture
    /\ UNCHANGED << panicked, queue, hand, plan, ticks, log, edges, given, arg, val >>

\* The hand makes its next movement when the device has nothing pending.
Does(p) ==
    /\ ~panicked /\ queue = << >> /\ ticks < MaxTicks /\ regs \in Configs
    /\ plan' = p
    /\ queue' = PlanEvents(p, DownSlots)
    /\ hand' = p.o
    /\ UNCHANGED << man, ret, panicked, trace, winner, lastEv, regs, ticks, log, edges,
                    given, arg, val >>

\* Fingers touch down: several on an empty pad, or one more beside the others.
Land ==
    \E k \in LandCounts \cup {1}, o \in Offsets :
        /\ queue = << >>
        /\ k <= Cardinality(FingerSlots \ DownSlots)
        /\ IF DownSlots = {} THEN k \in LandCounts ELSE o = hand /\ k = 1
        /\ Does(Plan("Land", k, o))

\* The fingers that are down move together to another offset.
Move ==
    \E o \in Offsets \ {hand} :
        /\ queue = << >> /\ DownSlots # {}
        /\ Does(Plan("Move", Cardinality(DownSlots), o))

\* The lowest finger lifts, or all of them.
Lift ==
    \E k \in {1, Cardinality(DownSlots)} :
        /\ DownSlots # {}
        /\ Does(Plan("Lift", k, hand))

\* Nothing moves during this tick.
Rest == Does(Plan("Rest", 0, hand))

\* Is a finger present in snapshot t that is not present in snapshot s?
Added(s, t) == \E i \in Slots : ~s.down[i] /\ t.down[i]

\* main.rs's loop: manager.update(&ev) on the event ev.
Update(ev) ==
    \E u \in { Manager_update(man, ev) } :
        /\ ~panicked
        /\ man' = u.man
        /\ ret' = u.ret
        /\ trace' = u.tr
        /\ winner' = u.by
        /\ panicked' = u.panic
        /\ lastEv' = ev.kind
        /\ given' = ev
        /\ edges' = IF ev.kind = "Frame" THEN NoEdges
                    ELSE [down |-> edges.down \/ Added(man.frame.cur, u.man.frame.cur),
                          up |-> edges.up \/ Added(u.man.frame.cur, man.frame.cur)]
        /\ UNCHANGED << hand, plan, regs, arg, val >>

\* ... on the next event of the device, of the given kind.
Deliver(kind) ==
    /\ queue # << >> /\ Head(queue).kind = kind
    /\ Update(Head(queue))
    /\ queue' = Tail(queue)

Down == Deliver("Down") /\ UNCHANGED << ticks, log >>

Up == Deliver("Up") /\ UNCHANGED << ticks, log >>

Motion == Deliver("Motion") /\ UNCHANGED << ticks, log >>

\* The device reports a cancelled touch just before it closes a frame.
Cancel ==
    /\ queue # << >> /\ Head(queue).kind = "Frame" /\ lastEv # "Cancel"
    /\ Update(CancelEvent)
    /\ UNCHANGED << queue, ticks, log >>

Ids(recs) == [i \in 1 .. Len(recs) |-> recs[i].id]

FrameBoundary ==
    /\ Deliver("Frame")
    /\ ticks' = ticks + 1
    /\ log' = Append(log, [plan |-> plan, ret |-> ret', tr |-> trace',
                           num_down |-> man'.frame.cur.num_down,
                           mean |-> mean_pos(man'.frame.cur),
                           opened |-> Opens(Frame_update(man.frame, FrameEvent)),
                           active |-> Ids(man'.active),
                           inactive |-> Ids(man'.inactive)])

Next ==
    \/ \E n \in {3, 4} : Register(n)
    \/ Land
    \/ Move
    \/ Lift
    \/ Rest
    \/ Down
    \/ Up
    \/ Motion
    \/ Cancel
    \/ FrameBoundary

Spec == Init /\ [][Next]_vars

\* --------------------------------------------------------- replayed input

(***************************************************************************)
(* A second specification feeds the Manager one event sequence twice: the  *)
(* device's queue starts with the events of a sequence of plans, followed  *)
(* by the same events again, and the hand plans nothing more.  plan names  *)
(* the replay and the number of ticks of one run.                          *)
(***************************************************************************)

\* Ticks in the replayed sequence.
MaxPhrase == 7

\* What the hand may do in a tick of a replayed sequence: three fingers land,
\* move 12 mm to the right, lift, or nothing happens.
PhrasePlans ==
    { Plan("Land", 3, Pt(3, 0)), Plan("Move", 3, Pt(15, 0)),
      Plan("Lift", 3, Zero), Plan("Rest", 0, Zero) }

RECURSIVE Feasible(_, _, _)
\* Can a hand with the fingers `downs` on the pad carry out plans[i..], ending
\* with no finger down?
Feasible(plans, i, downs) ==
    IF i > Len(plans) THEN downs = {}
    ELSE /\ CASE plans[i].kind = "Land" -> downs = {}
              [] plans[i].kind \in {"Move", "Lift"} -> Cardinality(downs) = plans[i].k
              [] OTHER -> TRUE
         /\ Feasible(plans, i + 1, PlanDowns(plans[i], downs))

RECURSIVE Script(_, _, _)
\* The events of plans[i..].
Script(plans, i, downs) ==
    IF i > Len(plans) THEN << >>
    ELSE PlanEvents(plans[i], downs) \o Script(plans, i + 1, PlanDowns(plans[i], downs))

\* The sequences replayed: they start and end with no finger down.
Phrases ==
    UNION { { S \in [1 .. n -> PhrasePlans] : Feasible(S, 1, {}) } : n \in 1 .. MaxPhrase }

RECURSIVE Pushed(_, _)
\* The Manager after main.rs has pushed the recognizers of counts[1..i].
Pushed(counts, i) ==
    IF i = 0 THEN Manager_new
    ELSE Manager_push(Pushed(counts, i - 1), direction_swipe_new(i, counts[i]))

InitReuse ==
    /\ regs = << 3 >>
    /\ man = Pushed(regs, Len(regs))
    /\ ret = NoGesture
    /\ panicked = FALSE
    /\ \E S \in Phrases :
          /\ queue = Script(S, 1, {}) \o Script(S, 1, {})
          /\ plan = Plan("Replay", Len(S), Zero)
    /\ hand = Zero
    /\ trace = << >>
    /\ winner = 0
    /\ lastEv = "Push"
    /\ ticks = 0
    /\ log = << >>
    /\ edges = NoEdges
    /\ given = NoEvent
    /\ arg = NoCall
    /\ val = NoCall

NextReuse ==
    \/ Down
    \/ Up
    \/ Motion
    \/ Cancel
    \/ FrameBoundary

SpecReuse == InitReuse /\ [][NextReuse]_vars

\* ------------------------------------------------------- one finger slides

(***************************************************************************)
(* A further specification feeds the Manager, with direction_swipe(3)       *)
(* pushed, the three-finger right swipe of ScenarioOne with one tick put in *)
(* after the first, in which one finger alone slides to the right.  plan    *)
(* names the finger and how far it slides.                                  *)
(***************************************************************************)

\* The farthest (mm) the one finger slides.
MaxSlide == 6

\* The events: tick 1, fingers 0, 1, 2 come down at x = 0, 10, 20; tick 2,
\* finger s moves d mm to the right; ticks 3 and 4, the three move to 3 mm
\* and 12 mm right of where they came down; tick 5, they lift.
SlideScript(s, d) ==
    PlanEvents(Plan("Land", 3, Zero), { })
        \o << Event("Motion", s, Place(s, Zero).x + d, 0), FrameEvent >>
        \o PlanEvents(Plan("Move", 3, Pt(3, 0)), { 0, 1, 2 })
        \o PlanEvents(Plan("Move", 3, Pt(12, 0)), { 0, 1, 2 })
        \o PlanEvents(Plan("Lift", 3, Pt(12, 0)), { 0, 1, 2 })

InitSlide ==
    /\ regs = << 3 >>
    /\ man = Pushed(regs, Len(regs))
    /\ ret = NoGesture
    /\ panicked = FALSE
    /\ \E s \in { 0, 1, 2 }, d \in 1 .. MaxSlide :
          /\ queue = SlideScript(s, d)
          /\ plan = Plan("Slide", s, Pt(d, 0))
    /\ hand = Zero
    /\ trace = << >>
    /\ winner = 0
    /\ lastEv = "Push"
    /\ ticks = 0
    /\ log = << >>
    /\ edges = NoEdges
    /\ given = NoEvent
    /\ arg = NoCall
    /\ val = NoCall

SpecSlide == InitSlide /\ [][NextReuse]_vars

\* ------------------------------------------------------------ raw driver

(***************************************************************************)
(* A third specification hands Manager::update the events of a driver that *)
(* keeps no discipline: any event for any slot at any time, among them a   *)
(* touch-down for a slot that is down, a touch-up for a slot that is not,  *)
(* and events for a slot the Snapshot has no room for; and the application *)
(* may push a recognizer at any time between two events.                   *)
(***************************************************************************)

\* Frame boundaries the driver produces in one run.
MaxDriverTicks == 3

\* The slots the driver names (the last one is out of range) and the finger
\* counts of the recognizers the application pushes, in order.
DriverSlots == { 0, 1, MAX_SLOTS }
DriverCounts == << 1 >>

\* The driver's events: every slot may be reported down at x = 0 and up; slot
\* 0 may also be reported down at x = 12 mm; slot 0 and the slot out of range
\* may be reported moving to x = 12 mm; and the frame boundary.
DriverEvents ==
    { Event("Down", s, 0, 0) : s \in DriverSlots }
        \cup { Event("Up", s, 0, 0) : s \in DriverSlots }
        \cup { Event("Down", 0, 12, 0) }
        \cup { Event("Motion", s, 12, 0) : s \in { 0, MAX_SLOTS } }
        \cup { FrameEvent }

\* The driver produces its next event.
Emit ==
    \E ev \in DriverEvents :
        /\ ~panicked /\ queue = << >> /\ ticks < MaxDriverTicks
        /\ queue' = << ev >>
        /\ UNCHANGED << man, ret, panicked, hand, plan, trace, winner, lastEv, regs, ticks,
                        log, edges, given, arg, val >>

\* Manager::push of the next direction_swipe recognizer, at any time.
Push ==
    /\ ~panicked /\ queue = << >> /\ Len(regs) < Len(DriverCounts)
    /\ man' = Manager_push(man, direction_swipe_new(Len(regs) + 1,
                                                    DriverCounts[Len(regs) + 1]))
    /\ regs' = Append(regs, DriverCounts[Len(regs) + 1])
    /\ lastEv' = "Push"
    /\ trace' = << >>
    /\ winner' = 0
    /\ ret' = NoGesture
    /\ UNCHANGED << panicked, queue, hand, plan, ticks, log, edges, given, arg, val >>

NextDriver ==
    \/ Push
    \/ Emit
    \/ Down
    \/ Up
    \/ Motion
    \/ Cancel
    \/ FrameBoundary

SpecDriver == Init /\ [][NextDriver]_vars

\* ------------------------------------------------------------ two drivers

(***************************************************************************)
(* A specification for comparing two runs.  Two Managers start alike, with *)
(* direction_swipe(2) pushed.  man is handed every event of a driver; val   *)
(* holds the other Manager (with what its last                             *)
(* update returned and whether it panicked), which is handed the same      *)
(* events except the motion events for a slot that is not down.            *)
(***************************************************************************)

\* Frame boundaries the two drivers produce in one run.
MaxPairTicks == 4

PairCounts == << 2 >>

\* The drivers' events: finger 0 comes down at x = 12 mm, finger 1 at 22 mm;
\* each may move 12 mm to the right; each may lift; and the frame boundary.
PairEvents ==
    { Event("Down", s, 12 + 10 * s, 0) : s \in { 0, 1 } }
        \cup { Event("Motion", s, 24 + 10 * s, 0) : s \in { 0, 1 } }
        \cup { Event("Up", s, 0, 0) : s \in { 0, 1 } }
        \cup { FrameEvent }

\* The motion event only one of the drivers produces: for slot 1, to a place
\* no finger is put or moved to.
UnfeltEvents == { Event("Motion", 1, 50, 50) }

InitPair ==
    /\ regs = PairCounts
    /\ man = Pushed(regs, Len(regs))
    /\ ret = NoGesture
    /\ panicked = FALSE
    /\ queue = << >>
    /\ hand = Zero
    /\ plan = NoPlan
    /\ trace = << >>
    /\ winner = 0
    /\ lastEv = "Push"
    /\ ticks = 0
    /\ log = << >>
    /\ edges = NoEdges
    /\ given = NoEvent
    /\ arg = NoCall
    /\ val = [fn |-> "Manager", man |-> man, ret |-> NoGesture, tr |-> << >>,
              panic |-> FALSE]

\* Is ev a motion event for a slot that is not down?
Unfelt(ev) == ev.kind = "Motion" /\ ev.slot < MAX_SLOTS /\ ~man.frame.cur.down[ev.slot]

\* manager.update(&ev) on man.
Handed(ev) ==
    \E u \in { Manager_update(man, ev) } :
        /\ man' = u.man
        /\ ret' = u.ret
        /\ trace' = u.tr
        /\ panicked' = u.panic

\* manager.update(&ev) on the other Manager, m.
HandedOther(m, ev) ==
    \E w \in { Manager_update(m, ev) } :
        val' = [fn |-> "Manager", man |-> w.man, ret |-> w.ret, tr |-> w.tr,
                panic |-> w.panic]

\* Both Managers are handed a touch event.
Alike ==
    \E ev \in PairEvents \ { FrameEvent } :
        /\ ~panicked /\ ~val.panic /\ ticks < MaxPairTicks
        /\ ~Unfelt(ev)
        /\ Handed(ev)
        /\ HandedOther(val.man, ev)
        /\ lastEv' = "Touch"
        /\ UNCHANGED << queue, hand, plan, winner, regs, ticks, log, edges, given, arg >>

\* Both Managers are handed the frame boundary.
AlikeFrame ==
    /\ ~panicked /\ ~val.panic /\ ticks < MaxPairTicks
    /\ Handed(FrameEvent)
    /\ HandedOther(val.man, FrameEvent)
    /\ lastEv' = "Frame"
    /\ ticks' = ticks + 1
    /\ UNCHANGED << queue, hand, plan, winner, regs, log, edges, given, arg >>

\* man alone is handed a motion event for a slot that is not down.
Alone ==
    \E ev \in UnfeltEvents :
        /\ ~panicked /\ ~val.panic /\ ticks < MaxPairTicks
        /\ Unfelt(ev)
        /\ Handed(ev)
        /\ lastEv' = "Alone"
        /\ UNCHANGED << queue, hand, plan, winner, regs, ticks, log, edges, given, arg, val >>

NextPair ==
    \/ Alike
    \/ AlikeFrame
    \/ Alone

SpecPair == InitPair /\ [][NextPair]_vars

\* ------------------------------------------------------- used and new

(***************************************************************************)
(* A specification for comparing a recognizer that has been through        *)
(* earlier activations with one that has not.  Two Managers with           *)
(* direction_swipe(3) pushed are handed the events of one sequence of      *)
(* plans that starts and ends with no finger down.  man is the Manager as  *)
(* it is; in the other, held in val, every recognizer in inactive is       *)
(* replaced by a newly constructed direction_swipe of the same finger      *)
(* count just before Manager::update initializes it.                       *)
(***************************************************************************)

\* Ticks in the sequence.
MaxAnew == 8

AnewPhrases ==
    UNION { { S \in [1 .. n -> PhrasePlans] : Feasible(S, 1, {}) } : n \in 1 .. MaxAnew }

InitAnew ==
    /\ regs = << 3 >>
    /\ man = Pushed(regs, Len(regs))
    /\ ret = NoGesture
    /\ panicked = FALSE
    /\ \E S \in AnewPhrases :
          /\ queue = Script(S, 1, {})
          /\ plan = Plan("Anew", Len(S), Zero)
    /\ hand = Zero
    /\ trace = << >>
    /\ winner = 0
    /\ lastEv = "Push"
    /\ ticks = 0
    /\ log = << >>
    /\ edges = NoEdges
    /\ given = NoEvent
    /\ arg = NoCall
    /\ val = [fn |-> "Manager", man |-> man, ret |-> NoGesture, tr |-> << >>,
              panic |-> FALSE]

\* Newly constructed recognizers in the place of recs.
Renew(recs) == [i \in 1 .. Len(recs) |-> direction_swipe_new(recs[i].id, recs[i].n)]

\* The Manager m with its inactive recognizers replaced by new ones, if ev is
\* a frame boundary at which Manager::update initializes them.
Renewed(m, ev) ==
    IF ev.kind = "Frame" /\ Opens(m.frame) THEN [m EXCEPT !.inactive = Renew(@)] ELSE m

\* Both Managers are handed the next touch event of the sequence.
Used ==
    /\ queue # << >> /\ Head(queue).kind # "Frame"
    /\ ~panicked /\ ~val.panic
    /\ Handed(Head(queue))
    /\ HandedOther(val.man, Head(queue))
    /\ queue' = Tail(queue)
    /\ lastEv' = Head(queue).kind
    /\ UNCHANGED << hand, plan, winner, regs, ticks, log, edges, given, arg >>

\* Both Managers are handed the next frame boundary of the sequence.
UsedFrame ==
    /\ queue # << >> /\ Head(queue).kind = "Frame"
    /\ ~panicked /\ ~val.panic
    /\ Handed(FrameEvent)
    /\ HandedOther(Renewed(val.man, FrameEvent), FrameEvent)
    /\ queue' = Tail(queue)
    /\ lastEv' = "Frame"
    /\ ticks' = ticks + 1
    /\ UNCHANGED << hand, plan, winner, regs, log, edges, given, arg >>

NextAnew ==
    \/ Used
    \/ UsedFrame

SpecAnew == InitAnew /\ [][NextAnew]_vars

\* ---------------------------------------------------------- configuration

(***************************************************************************)
(* config.rs.  A string is the sequence of its characters; a binding is    *)
(* its gesture string (command and args take no part in building the map,  *)
(* so the binding's place in the file stands for them).                    *)
(***************************************************************************)

Digits == << "0", "1", "2", "3", "4", "5", "6", "7", "8", "9" >>
IsDigit(c) == \E i \in 1 .. 10 : Digits[i] = c
DigitValue(c) == (CHOOSE i \in 1 .. 10 : Digits[i] = c) - 1

RECURSIVE split_from(_, _, _)
\* str::split_whitespace from character i on, word being the word begun.
split_from(s, i, word) ==
    IF i > Len(s) THEN (IF word = << >> THEN << >> ELSE << word >>)
    ELSE IF s[i] = " "
    THEN (IF word = << >> THEN << >> ELSE << word >>) \o split_from(s, i + 1, << >>)
    ELSE split_from(s, i + 1, Append(word, s[i]))

\* s.split_whitespace().collect::<Vec<_>>()
split_whitespace(s) == split_from(s, 1, << >>)

RECURSIVE parse_digits(_, _, _)
\* The digits of w from i on, added to acc with checked arithmetic: -1 (Err)
\* on a character that is no digit and on a value over u8::MAX.
parse_digits(w, i, acc) ==
    IF i > Len(w) THEN acc
    ELSE IF ~IsDigit(w[i]) THEN -1
    ELSE IF acc * 10 + DigitValue(w[i]) > 255 THEN -1
    ELSE parse_digits(w, i + 1, acc * 10 + DigitValue(w[i]))

\* str::parse::<u8>: an optional "+", then one or more digits; -1 stands for Err.
parse_u8(w) ==
    IF w = << >> THEN -1
    ELSE IF w[1] = "+" THEN (IF Len(w) = 1 THEN -1 ELSE parse_digits(w, 2, 0))
    ELSE parse_digits(w, 1, 0)

Word_swipe == << "s", "w", "i", "p", "e" >>
Word_tap == << "t", "a", "p" >>
Word_up == << "u", "p" >>
Word_down == << "d", "o", "w", "n" >>
Word_left == << "l", "e", "f", "t" >>
Word_right == << "r", "i", "g", "h", "t" >>

\* The match of parse_swipe: the Direction a word names, "None" for `_`.
DirectionNamed(w) ==
    CASE w = Word_up -> "Up"
      [] w = Word_down -> "Down"
      [] w = Word_left -> "Left"
      [] w = Word_right -> "Right"
      [] OTHER -> "None"

\* parse_swipe: Option<Gesture>, NoGesture standing for None.
parse_swipe(s) ==
    IF s = << >> THEN NoGesture
    ELSE LET counted == parse_u8(s[1]) >= 0
             num_fingers == IF counted THEN parse_u8(s[1]) ELSE 3
             rest == IF counted THEN Tail(s) ELSE s
         IN  IF Len(rest) # 1 THEN NoGesture
             ELSE IF DirectionNamed(rest[1]) = "None" THEN NoGesture
             ELSE Swipe(num_fingers, DirectionNamed(rest[1]))

\* A panic unwinding where an Option<Gesture> was to be returned.
Unwound == Swipe(0, "Panic")

\* parse_gesture: parts[0] panics (index out of bounds) on a string without a word.
parse_gesture(s) ==
    Let(split_whitespace(s), LAMBDA parts :
        IF parts = << >> THEN Unwound
        ELSE IF parts[1] = Word_swipe THEN parse_swipe(Tail(parts))
        ELSE NoGesture)

RECURSIVE to_config_from(_, _, _)
\* ConfigParsed::to_config from binding i on, with the map built so far:
\* BindingParsed::to_binding gives Err when parse_gesture gives None, and a
\* gesture that is already a key gives Err("duplicate binding").
to_config_from(bindings, i, map) ==
    IF i > Len(bindings) THEN [tag |-> "Ok", bindings |-> map]
    ELSE Let(parse_gesture(bindings[i]), LAMBDA g :
             IF g = Unwound THEN [tag |-> "Panic", bindings |-> { }]
             ELSE IF g = NoGesture
             THEN [tag |-> "Err: Error parsing gesture in config file", bindings |-> { }]
             ELSE IF \E b \in map : b.gesture = g
             THEN [tag |-> "Err: duplicate binding", bindings |-> { }]
             ELSE to_config_from(bindings, i + 1,
                                 map \cup { [gesture |-> g, action |-> i] }))

\* ConfigParsed::to_config
to_config(bindings) == to_config_from(bindings, 1, { })

\* ---------------------------------------------------------- library calls

(***************************************************************************)
(* A last specification calls functions of the library on their own: arg   *)
(* is drawn from the calls below, and the one step applies the function    *)
(* and leaves what it returned in val.                                     *)
(***************************************************************************)

\* Full turns added to an angle before it is normalized.
MaxTurns == 2

\* f64 values given to Angle::from_radians: the whole degrees from -360 to
\* 720 in steps of 15, and values a few units from zero and from a full turn.
Radians ==
    { Deg(15 * i) : i \in -24 .. 48 }
        \cup { -3, -1, 1, 3, FullTurn - 2 * Grain, FullTurn + 2 * Grain }

\* Angles given to Direction::from_angle: every whole degree, and the Angle
\* of the least f64 below zero.
Angles == { Angle_from_degrees(d) : d \in 0 .. 359 } \cup { Angle_from_radians(-1) }

\* Thresholds given to Direction::from_angle (UAngle::from_degrees).
Thresholds == { Deg(0), Deg(10), Deg(RoundThreshold), Deg(45) }

\* Positions (mm) of the one finger of a frame given to StraightSwipe::update
\* and of the last_pos of the StraightSwipe, whose init_pos is the origin.
SwipePositions ==
    { Pt(Mm(2), 0), Pt(Mm(3), 0), Pt(Mm(9), 0), Pt(Mm(10), 0), Pt(Mm(11), 0),
      Pt(Mm(12), 0), Pt(Mm(9), Mm(4)), Pt(Mm(3), Mm(12)), Pt(0, Mm(3)) }
LastPositions == { Zero, Pt(Mm(6), 0), Pt(Mm(9), 0) }

\* A Frame with one finger at p and the given edge flags.
FrameAt(p, up, down) ==
    [touch_down |-> down, touch_up |-> up,
     cur |-> set_down(Snapshot_new, 0, p), last |-> Snapshot_new]

\* Binding entries of one configuration file.
MaxBindings == 2

RECURSIVE Join(_)
\* The words with one blank between them.
Join(words) ==
    IF Len(words) = 0 THEN << >>
    ELSE IF Len(words) = 1 THEN words[1]
    ELSE words[1] \o << " " >> \o Join(Tail(words))

\* Gesture strings of binding entries.
GestureStrings ==
    { Join(<< Word_swipe, Word_up >>),
      Join(<< Word_swipe, << "3" >>, Word_up >>),
      Join(<< Word_swipe, << "4" >>, Word_up >>),
      Join(<< Word_swipe, << "3" >>, Word_left >>),
      Join(<< Word_swipe, << "0", "3" >>, Word_up >>),
      Join(<< Word_swipe, << "+", "3" >>, Word_up >>),
      Join(<< Word_swipe, << "3", "0", "0" >>, Word_up >>),
      Join(<< Word_swipe, << "3" >> >>),
      Join(<< Word_swipe, Word_up, Word_down >>),
      Join(<< Word_tap, Word_up >>),
      << " " >> \o Join(<< Word_swipe, << >>, Word_down >>),
      Word_swipe,
      << " " >>,
      << >> }

RECURSIVE Files(_)
\* The sequences of 1 .. n gesture strings.
Files(n) ==
    IF n = 0 THEN { }
    ELSE { << g >> : g \in GestureStrings }
             \cup { Append(f, g) : f \in Files(n - 1), g \in GestureStrings }

\* A Snapshot with finger 0 at x mm and, if second, finger 1 at 10 mm.
Fingertips(x, second) ==
    IF second THEN set_down(set_down(Snapshot_new, 0, Pt(Mm(x), 0)), 1, Pt(Mm(10), 0))
    ELSE set_down(Snapshot_new, 0, Pt(Mm(x), 0))

\* NFingers(n).constrain(NoMovement) inside a direction_swipe(n), its filter
\* initialized on a frame with finger 0 at the origin (and finger 1 or not),
\* and a frame to init or update it with: finger 0 up to 2 mm away.
Constraints ==
    { [fn |-> "Constraint", op |-> op,
       r |-> [direction_swipe_new(1, n) EXCEPT !.nm = Fingertips(0, had)],
       frame |-> [touch_down |-> ~had /\ second, touch_up |-> up,
                  cur |-> Fingertips(x, second), last |-> Fingertips(0, had)]] :
          op \in {"init", "update"}, n \in {1, 2}, had \in BOOLEAN, second \in BOOLEAN,
          x \in 0 .. 2, up \in BOOLEAN }

RECURSIVE Touching(_, _, _)
\* A Snapshot with the fingers of S down, finger i at 10 i mm shifted by d.
Touching(S, d, i) ==
    IF i >= MAX_SLOTS THEN Snapshot_new
    ELSE IF i \in S THEN set_down(Touching(S, d, i + 1), i, PAdd(Pt(Mm(10 * i), 0), d))
    ELSE Touching(S, d, i + 1)

\* Pairs of Snapshots given to Snapshot::mean_dist: any fingers of 0, 1, 2
\* down in each, those of the first shifted by 0, 3 or 5 mm.
Measured ==
    { [fn |-> "mean_dist", s |-> Touching(S, d, 0), o |-> Touching(T, Zero, 0)] :
          S \in SUBSET { 0, 1, 2 }, T \in SUBSET { 0, 1, 2 },
          d \in { Zero, Pt(Mm(3), 0), Pt(Mm(3), Mm(4)) } }

\* Frames given to NoMovement in a row.
MaxDrift == 3

\* A Frame with finger 0 at a mm and, unless b < 0, finger 1 at 10 + b mm.
Hold(a, b) ==
    [touch_down |-> FALSE, touch_up |-> FALSE, last |-> Snapshot_new,
     cur |-> IF b < 0 THEN set_down(Snapshot_new, 0, Pt(Mm(a), 0))
             ELSE set_down(set_down(Snapshot_new, 0, Pt(Mm(a), 0)), 1, Pt(Mm(10 + b), 0))]

Holds == { Hold(a, b) : a \in 0 .. 2, b \in -1 .. 1 }

RECURSIVE Drifts(_)
\* The sequences of 1 .. n such frames.
Drifts(n) ==
    IF n = 0 THEN { }
    ELSE { << h >> : h \in Holds } \cup { Append(d, h) : d \in Drifts(n - 1), h \in Holds }

\* NoMovement given an init frame and frames to update with, one after another.
Tracks ==
    { [fn |-> "NoMovement", init |-> h, frames |-> d] : h \in Holds, d \in Drifts(MaxDrift) }

RECURSIVE Tracked(_, _, _)
\* What NoMovement::update returns and leaves in init_pos, frame after frame.
Tracked(init_pos, frames, k) ==
    IF k > Len(frames) THEN << >>
    ELSE Let(NoMovement_update(init_pos, frames[k]), LAMBDA u :
             << u >> \o Tracked(u.st, frames, k + 1))

\* Ticks over which a hand is carried across the pad.
MaxCarry == 2

\* The vectors (mm) the hand is carried by in one tick.
Carries == { Zero, Pt(Mm(1), 0), Pt(Mm(-7), Mm(3)), Pt(Mm(60), Mm(-30)) }

RECURSIVE Routes(_)
\* The sequences of 1 .. n such vectors.
Routes(n) ==
    IF n = 0 THEN { }
    ELSE { << v >> : v \in Carries } \cup { Append(r, v) : r \in Routes(n - 1), v \in Carries }

RECURSIVE Along(_, _)
\* Where the first k vectors of route take the hand.
Along(route, k) == IF k = 0 THEN Zero ELSE PAdd(Along(route, k - 1), route[k])

\* The frames of a hand with the fingers S down that is carried along route.
Carried(S, route) ==
    [k \in 1 .. Len(route) |->
        [touch_down |-> FALSE, touch_up |-> FALSE,
         cur |-> Touching(S, Along(route, k), 0),
         last |-> Touching(S, Along(route, k - 1), 0)]]

\* NoRelativeMovement given an init frame and the frames of a carried hand.
Shapes ==
    { [fn |-> "NoRelativeMovement",
       init |-> [touch_down |-> S # { }, touch_up |-> FALSE,
                 cur |-> Touching(S, Zero, 0), last |-> Snapshot_new],
       frames |-> Carried(S, r)] : S \in SUBSET { 0, 1, 2 }, r \in Routes(MaxCarry) }

RECURSIVE Shaped(_, _, _)
\* What NoRelativeMovement::update returns and leaves in init_rel_pos, frame
\* after frame.
Shaped(init_rel_pos, frames, k) ==
    IF k > Len(frames) THEN << >>
    ELSE Let(NoRelativeMovement_update(init_rel_pos, frames[k]), LAMBDA u :
             << u >> \o Shaped(u.st, frames, k + 1))

Calls ==
    Constraints \cup Measured \cup Tracks \cup Shapes \cup
    { [fn |-> "to_config", bindings |-> f] : f \in Files(MaxBindings) }
        \cup
    { [fn |-> "StraightSwipe",
       ss |-> [init_pos |-> Zero, last_pos |-> l, angle |-> Direction_to_angle(d)],
       frame |-> FrameAt(p, up, down)] :
          l \in LastPositions, d \in {"Right", "Up"}, p \in SwipePositions,
          up \in BOOLEAN, down \in BOOLEAN }
        \cup
    { [fn |-> "from_radians", r |-> r, k |-> k] : r \in Radians, k \in -MaxTurns .. MaxTurns }
        \cup { [fn |-> "from_angle", a |-> a, t |-> t] : a \in Angles, t \in Thresholds }

InitCalls ==
    /\ man = Manager_new
    /\ ret = NoGesture
    /\ panicked = FALSE
    /\ queue = << >>
    /\ hand = Zero
    /\ plan = NoPlan
    /\ trace = << >>
    /\ winner = 0
    /\ lastEv = "None"
    /\ regs = << >>
    /\ ticks = 0
    /\ log = << >>
    /\ edges = NoEdges
    /\ given = NoEvent
    /\ arg \in Calls
    /\ val = NoCall

\* All that a call on its own leaves alone.
callee == << man, ret, panicked, queue, hand, plan, trace, winner, lastEv, regs, ticks, log,
            edges, given, arg >>

\* Constraint::init
Constrain ==
    /\ arg.fn = "Constraint" /\ arg.op = "init" /\ val = NoCall
    /\ val' = [fn |-> arg.fn, out |-> Fingers_init(arg.r, arg.frame)]
    /\ UNCHANGED callee

\* Constraint::update
Filter ==
    /\ arg.fn = "Constraint" /\ arg.op = "update" /\ val = NoCall
    /\ val' = [fn |-> arg.fn, out |-> Fingers_update(arg.r, arg.frame)]
    /\ UNCHANGED callee

\* ConfigParsed::to_config on the binding entries of a file.
Configure ==
    /\ arg.fn = "to_config" /\ val = NoCall
    /\ val' = [fn |-> arg.fn, out |-> to_config(arg.bindings)]
    /\ UNCHANGED callee

\* StraightSwipe::update on a StraightSwipe as init and earlier updates left it.
Sample ==
    /\ arg.fn = "StraightSwipe" /\ val = NoCall
    /\ val' = [fn |-> arg.fn, out |-> StraightSwipe_update(arg.ss, arg.frame)]
    /\ UNCHANGED callee

\* Angle::from_radians(r) and Angle::from_radians(r + 2.0 * PI * k).
Normalize ==
    /\ arg.fn = "from_radians" /\ val = NoCall
    /\ val' = [fn |-> arg.fn,
               out |-> [plain |-> Angle_from_radians(arg.r),
                        turned |-> Angle_from_radians(Fl(arg.r + Fl(FullTurn * arg.k)))]]
    /\ UNCHANGED callee

\* Direction::from_angle(a, t)
Round ==
    /\ arg.fn = "from_angle" /\ val = NoCall
    /\ val' = [fn |-> arg.fn, out |-> Direction_from_angle(arg.a, arg.t)]
    /\ UNCHANGED callee

\* Snapshot::mean_dist
Measure ==
    /\ arg.fn = "mean_dist" /\ val = NoCall
    /\ val' = [fn |-> arg.fn, out |-> mean_dist(arg.s, arg.o)]
    /\ UNCHANGED callee

\* NoMovement::init, then NoMovement::update on each frame in turn.
Track ==
    /\ arg.fn = "NoMovement" /\ val = NoCall
    /\ val' = [fn |-> arg.fn, out |-> Tracked(NoMovement_init(arg.init), arg.frames, 1)]
    /\ UNCHANGED callee

\* NoRelativeMovement::init, then NoRelativeMovement::update on each frame in turn.
Carry ==
    /\ arg.fn = "NoRelativeMovement" /\ val = NoCall
    /\ val' = [fn |-> arg.fn,
               out |-> Shaped(NoRelativeMovement_init(arg.init), arg.frames, 1)]
    /\ UNCHANGED callee

NextCalls ==
    \/ Measure
    \/ Carry
    \/ Track
    \/ Constrain
    \/ Filter
    \/ Configure
    \/ Sample
    \/ Normalize
    \/ Round

SpecCalls == InitCalls /\ [][NextCalls]_vars

\* ------------------------------------------------------- reading the history

\* The log grows on frame boundaries only; the properties that read the whole
\* log are read where lastEv = "Frame", the states in which it has just grown.

\* Did recognizer id make this call during the calls tr?
Called(tr, id, node, op, res) ==
    \E i \in 1 .. Len(tr) : tr[i] = [id |-> id, node |-> node, op |-> op, res |-> res]

\* Did the hand carry out exactly these plans, one per tick so far?
Ran(plans) ==
    /\ Len(log) = Len(plans)
    /\ \A i \in 1 .. Len(plans) : log[i].plan = plans[i]

\* The recognizers the Manager owns.
Owned == man.active \o man.inactive

\* In the calls tr recognizer id is initialized, then updated, and not updated
\* before that.
InitThenUpdate(tr, id) ==
    \E i, j \in 1 .. Len(tr) :
        /\ i < j
        /\ tr[i] = [id |-> id, node |-> "Recognizer", op |-> "init", res |-> NoVal]
        /\ tr[j].id = id /\ tr[j].node = "Recognizer" /\ tr[j].op = "update"
        /\ \A k \in 1 .. i : ~(tr[k].id = id /\ tr[k].node = "Recognizer" /\ tr[k].op = "update")

\* In the calls tr recognizer id is updated and the Manager does not initialize it.
UpdateOnly(tr, id) ==
    /\ \E j \in 1 .. Len(tr) : tr[j].id = id /\ tr[j].node = "Recognizer" /\ tr[j].op = "update"
    /\ \A k \in 1 .. Len(tr) : ~(tr[k].id = id /\ tr[k].node = "Recognizer" /\ tr[k].op = "init")

\* This step is Manager::update on a frame boundary that opens a gesture window.
OpeningStep == lastEv' = "Frame" /\ ticks' = ticks + 1 /\ Opens(man.frame)

\* The ticks up to t on which recognizer id's node returned res from update.
TicksWhere(t, id, node, res) ==
    { i \in 1 .. t : Called(log[i].tr, id, node, "update", res) }

Latest(S) == CHOOSE i \in S : \A k \in S : k <= i

\* Is id one of ids?
Among(id, ids) == \E i \in 1 .. Len(ids) : ids[i] = id

\* The movement of the mean position that recognizer id's InitialAngle judges
\* on tick t: from the tick its NFingers succeeded (where InitialAngle was
\* initialized) to tick t.
InitialMove(t, id) ==
    PSub(log[t].mean, log[Latest(TicksWhere(t, id, "NFingers", "Succeeded"))].mean)

\* Is the direction of d more than 25 degrees away from both axes?  Told from
\* the slope: the shorter component is more than tan(25 degrees) of the longer.
Oblique(d) ==
    Min(Abs(d.x), Abs(d.y)) * 1000000 > TanMicro[RoundThreshold] * Max(Abs(d.x), Abs(d.y))

\* The cardinal direction a movement d on the pad points to, y growing
\* downwards: the direction of its longer component.
Cardinal(d) ==
    IF Abs(d.x) >= Abs(d.y)
    THEN (IF d.x > 0 THEN "Right" ELSE "Left")
    ELSE (IF d.y < 0 THEN "Up" ELSE "Down")

\* This step is Manager::update on a frame boundary.
FrameStep == lastEv' = "Frame" /\ ticks' = ticks + 1

\* The recognizers a frame boundary dispatches, in order: those in active,
\* then, if the boundary opens a window, those re-armed from inactive.
Dispatched == IF Opens(man.frame) THEN man.active \o man.inactive ELSE man.active

\* This step is Manager::update on an event that is not a frame boundary.
TouchStep ==
    /\ lastEv' \in {"Down", "Up", "Motion", "Cancel"}
    /\ ticks' = ticks /\ plan' = plan /\ regs' = regs

\* ------------------------------------------------------------------ claims

\* The three-finger right swipe of the spec's first scenario: down at
\* x = 0, 10, 20; motion to 3, 13, 23; motion to 12, 22, 32; all up.
ScenarioOne ==
    << Plan("Land", 3, Pt(0, 0)), Plan("Move", 3, Pt(3, 0)),
       Plan("Move", 3, Pt(12, 0)), Plan("Lift", 3, Pt(12, 0)) >>

\* C1: on a fresh Manager with only direction_swipe(3) registered, the four
\* ticks of ScenarioOne make Manager.update return Swipe{3, Right} on the
\* frame boundary of tick 4 and None on every other update.  (Refuted: the
\* fourth boundary returns None; StraightSwipe measures the lift against the
\* mean of an empty snapshot, (0, 0), which is exactly 10 mm from the start.)
C1_SwipeOnTickFour ==
    (regs = << 3 >> /\ Ran(ScenarioOne)) =>
        /\ \A i \in 1 .. 3 : log[i].ret = NoGesture
        /\ log[4].ret = Swipe(3, "Right")

\* What the code does in ScenarioOne instead: StraightSwipe returns Failed on
\* the fourth boundary and the recognizer is retired with nothing returned.
C1_Observed ==
    /\ regs = << 3 >> /\ Ran(ScenarioOne)
    /\ \A i \in 1 .. 4 : log[i].ret = NoGesture
    /\ Called(log[4].tr, 1, "StraightSwipe", "update", "Failed")
    /\ log[4].inactive = << 1 >>

\* C2: for any event sequence S that starts and ends with no finger down and
\* on which the Manager returns a gesture g at some tick, feeding S a second
\* time immediately afterwards returns g again at the corresponding tick.
\* (Refuted: a recognizer that ends the first run waiting in FingersUp is
\* still active when the second run opens its first window; it fails there
\* on touch_down without having been re-initialized.)
C2_SecondRunRepeats ==
    (plan.kind = "Replay" /\ queue = << >>) =>
        \A i \in 1 .. plan.k :
            log[i].ret # NoGesture => log[plan.k + i].ret = log[i].ret

\* C3 (as amended): at every frame boundary that opens a gesture window, every
\* recognizer that is in inactive has init((), frame) called on that tick
\* before it is updated; a recognizer that is still in active (pushed and not
\* yet retired, or waiting in a later stage such as FingersUp) is updated on
\* that tick without any init.
C3_InactiveRearmed ==
    [][OpeningStep =>
          /\ \A i \in 1 .. Len(man.inactive) : InitThenUpdate(trace', man.inactive[i].id)
          /\ \A i \in 1 .. Len(man.active) : UpdateOnly(trace', man.active[i].id)]_vars

\* C3 witness: a window has just opened with recognizer 2 re-armed from
\* inactive and recognizer 1, which was waiting in FingersUp, updated as it was.
C3_Witness ==
    /\ Len(log) = 4 /\ log[4].opened /\ lastEv = "Frame"
    /\ log[3].active = << 1 >> /\ log[3].inactive = << 2 >>
    /\ InitThenUpdate(trace, 2)
    /\ UpdateOnly(trace, 1)
    /\ Called(trace, 1, "FingersUp", "update", "Failed")

\* C3 as stated: at every frame boundary that opens a gesture window all
\* registered recognizers are already in inactive, and every registered
\* recognizer has init called on that tick before it is updated.
C3_AllRearmed ==
    [][OpeningStep =>
          /\ man.active = << >>
          /\ \A id \in 1 .. Len(regs) : InitThenUpdate(trace', id)]_vars

\* The ticks of the gesture window tick t lies in: from the last boundary
\* that opened a window up to t.
Window(t) == { j \in 1 .. t : \A k \in j + 1 .. t : ~log[k].opened }

\* C4: Swipe{num_fingers: n} is returned only if cur.num_down never exceeded n
\* at any frame boundary since the tick that opened the current gesture
\* window, and a candidate whose NFingers stage observes num_down > n returns
\* Failed on that tick.
C4_Multiplexed ==
    lastEv = "Frame" => \A t \in 1 .. Len(log) :
        /\ log[t].ret # NoGesture =>
              \A j \in Window(t) : log[j].num_down <= log[t].ret.num_fingers
        /\ \A id \in 1 .. Len(regs) :
              (/\ log[t].num_down > regs[id]
               /\ \E res \in {"Continuing", "Failed", "Succeeded"} :
                     Called(log[t].tr, id, "NFingers", "update", res))
              => /\ Called(log[t].tr, id, "NFingers", "update", "Failed")
                 /\ Called(log[t].tr, id, "Recognizer", "update", "Failed")

\* C4 witness: with direction_swipe(3) and direction_swipe(4) registered, four
\* fingers landed, the 3-finger candidate failed in NFingers on the opening
\* tick, and the four-finger swipe has just been returned.
C4_Witness ==
    /\ regs = << 3, 4 >> /\ Len(log) = 4
    /\ log[1].opened /\ log[1].num_down = 4
    /\ Called(log[1].tr, 1, "NFingers", "update", "Failed")
    /\ \A t \in 2 .. 4 : \A i \in 1 .. Len(log[t].tr) : log[t].tr[i].id # 1
    /\ log[4].ret.num_fingers = 4
    /\ ret = log[4].ret

\* C5: direction_swipe(n) never returns a gesture when the mean finger
\* position travelled no more than min_length (10 mm) between the tick on
\* which the n fingers were recognized as down and the last tick before a
\* finger lifted.  (Refuted: StraightSwipe measures the snapshot after the
\* lift, whose mean is that of the remaining fingers, or (0, 0) with none.)
C5_NoShortSwipe ==
    \A t \in 1 .. Len(log) : \A id \in 1 .. Len(regs) :
        Called(log[t].tr, id, "Recognizer", "update", "Succeeded") =>
            LET recognized == Latest(TicksWhere(t, id, "NFingers", "Succeeded"))
                lifted == Latest(TicksWhere(t, id, "StraightSwipe", "Succeeded"))
            IN  LongerThan(PSub(log[lifted - 1].mean, log[recognized].mean), MinLength)

\* The same with all fingers lifting in one tick: three fingers land at
\* x = 3, 13, 23, move 9 mm to the right and lift together.
ScenarioShort ==
    << Plan("Land", 3, Pt(3, 0)), Plan("Move", 3, Pt(12, 0)),
       Plan("Lift", 3, Pt(12, 0)), Plan("Rest", 0, Pt(12, 0)) >>

\* What the code does in ScenarioShort: the swipe is returned.
C5_Observed ==
    /\ regs = << 3 >> /\ Ran(ScenarioShort)
    /\ log[4].ret = Swipe(3, "Right")
    /\ PSub(log[2].mean, log[1].mean) = Pt(Mm(9), 0)

\* C6: when InitialAngle succeeds with an angle more than 25 degrees away from
\* every cardinal direction, the flat-mapped stage returns Failed on that
\* tick, the candidate is retired, and no gesture is returned for the rest of
\* that gesture window.
C6_ObliqueFails ==
    lastEv = "Frame" => \A t \in 1 .. Len(log) : \A id \in 1 .. Len(regs) :
        (/\ Called(log[t].tr, id, "InitialAngle", "update", "Succeeded")
         /\ Oblique(InitialMove(t, id)))
        => /\ Called(log[t].tr, id, "Rounded", "update", "Failed")
           /\ Called(log[t].tr, id, "Recognizer", "update", "Failed")
           /\ Among(id, log[t].inactive)
           /\ \A u \in t .. Len(log) : t \in Window(u) => log[u].ret = NoGesture

\* C6 witness: InitialAngle succeeded on tick 2 with an oblique movement, and
\* two more ticks of the same window have passed.
C6_Witness ==
    /\ Len(log) = 4 /\ 2 \in Window(4)
    /\ Called(log[2].tr, 1, "InitialAngle", "update", "Succeeded")
    /\ Oblique(InitialMove(2, 1))
    /\ Called(log[2].tr, 1, "Rounded", "update", "Failed")
    /\ log[3].plan.kind = "Lift"

\* C7: the direction of a returned Swipe is the cardinal rounding of the
\* initial movement of the mean finger position (the one InitialAngle
\* succeeded on), with the y axis inverted: toward +x Right, toward -x Left,
\* toward -y Up, toward +y Down.
C7_Orientation ==
    lastEv = "Frame" => \A t \in 1 .. Len(log) : \A id \in 1 .. Len(regs) :
        Called(log[t].tr, id, "Recognizer", "update", "Succeeded") =>
            LET judged == Latest(TicksWhere(t, id, "InitialAngle", "Succeeded"))
            IN  /\ ~Oblique(InitialMove(judged, id))
                /\ log[t].ret.direction = Cardinal(InitialMove(judged, id))

\* C7 witness: a swipe whose initial movement went toward -y has just been
\* returned as Up.
C7_Witness ==
    /\ lastEv = "Frame" /\ Len(log) = 4
    /\ ret = Swipe(3, "Up")
    /\ Called(log[2].tr, 1, "InitialAngle", "update", "Succeeded")
    /\ InitialMove(2, 1).y < 0

\* C8: on a frame boundary Manager.update returns a gesture if and only if at
\* least one dispatched recognizer returned Succeeded on that tick, and the
\* gesture is the output of the last of them in the order of the active
\* collection; the recognizers are updated once each, in that order.
C8_Arbitration ==
    [][FrameStep =>
          LET succ == { i \in 1 .. Len(Dispatched) :
                           Called(trace', Dispatched[i].id, "Recognizer", "update", "Succeeded") }
              updates == SelectSeq(trace', LAMBDA c : c.node = "Recognizer" /\ c.op = "update")
          IN  /\ (ret' # NoGesture) <=> (succ # {})
              /\ (winner' # 0) <=> (succ # {})
              /\ succ # {} =>
                    /\ winner' = Dispatched[Latest(succ)].id
                    /\ ret' = Swipe(Dispatched[Latest(succ)].n, Dispatched[Latest(succ)].upc)
              /\ Len(updates) = Len(Dispatched)
              /\ \A i \in 1 .. Len(updates) : updates[i].id = Dispatched[i].id]_vars

\* C8 witness: two recognizers returned Succeeded on the same frame boundary
\* and the output of the second was returned.
C8_Witness ==
    /\ lastEv = "Frame"
    /\ Called(trace, 1, "Recognizer", "update", "Succeeded")
    /\ Called(trace, 2, "Recognizer", "update", "Succeeded")
    /\ winner = 2
    /\ ret = Swipe(regs[2], "Right")

\* C9: Manager.update on an event that is not a frame boundary returns None,
\* calls init or update on no recognizer, and leaves active, inactive, buf and
\* frame.last as they were, recognizers' state included; only frame.cur and
\* the edge flags may change.
C9_AtomicTick ==
    [][TouchStep =>
          /\ ret' = NoGesture
          /\ trace' = << >>
          /\ man'.active = man.active
          /\ man'.inactive = man.inactive
          /\ man'.buf = man.buf
          /\ man'.frame.last = man.frame.last]_vars

\* C9 witness: a finger of a hand in mid-gesture has just moved: the current
\* snapshot differs from the last one and no recognizer has been called.
C9_Witness ==
    /\ lastEv = "Motion"
    /\ Len(man.active) > 0 /\ man.active[1].c1
    /\ man.frame.cur # man.frame.last
    /\ trace = << >> /\ ret = NoGesture

\* Did recognizer id return a gesture to the Manager on tick t of history h?
Emitted(h, t, id) == Called(h[t].tr, id, "Recognizer", "update", "Succeeded")

\* C10: a recognizer that returned Succeeded or Failed to the Manager is moved
\* to inactive; a recognizer in inactive stays there unchanged, neither
\* updated nor initialized, on every frame boundary that does not open a
\* gesture window; so a recognizer returns at most one gesture between two
\* window-opening ticks.
C10_Retirement ==
    [][FrameStep =>
          /\ \A i \in 1 .. Len(Dispatched) :
                (\E res \in {"Succeeded", "Failed"} :
                    Called(trace', Dispatched[i].id, "Recognizer", "update", res))
                => /\ Among(Dispatched[i].id, Ids(man'.inactive))
                   /\ ~Among(Dispatched[i].id, Ids(man'.active))
          /\ ~Opens(man.frame) =>
                \A i \in 1 .. Len(man.inactive) :
                    /\ \A k \in 1 .. Len(trace') : trace'[k].id # man.inactive[i].id
                    /\ man'.inactive[i] = man.inactive[i]
          /\ \A id \in 1 .. Len(regs) : \A t1, t2 \in 1 .. Len(log') :
                (t1 < t2 /\ Emitted(log', t1, id) /\ Emitted(log', t2, id))
                => \E k \in t1 + 1 .. t2 : log'[k].opened]_vars

\* C10 witness: the recognizer returned a swipe on tick 4, stayed in inactive
\* without a call on tick 5, was re-armed when tick 6 opened a window, and
\* returned a second swipe on tick 9.
C10_Witness ==
    /\ Len(log) = 10
    /\ Emitted(log, 4, 1)
    /\ log[4].inactive = << 1 >>
    /\ log[5].tr = << >> /\ ~log[5].opened /\ log[5].inactive = << 1 >>
    /\ log[6].opened /\ InitThenUpdate(log[6].tr, 1)
    /\ Emitted(log, 9, 1)

\* The ids of the recognizers the Manager holds in active and inactive.
OwnedIds == Ids(man.active) \o Ids(man.inactive)

\* C11: after every Manager.update call that returns, buf is empty and every
\* recognizer ever pushed is in exactly one of active or inactive, none lost
\* and none twice; the recognizers held are those pushed, so the union
\* changes only through push.
C11_Partition ==
    ~panicked =>
        /\ man.buf = << >>
        /\ Len(OwnedIds) = Len(regs)
        /\ \A id \in 1 .. Len(regs) : \E i \in 1 .. Len(OwnedIds) : OwnedIds[i] = id

\* C11 witness: with two recognizers pushed, a frame boundary has just
\* returned a gesture and both recognizers are retired in inactive, after a
\* boundary that left one in active and one in inactive.
C11_Witness ==
    /\ ~panicked /\ Len(regs) = 2 /\ lastEv = "Frame" /\ ret # NoGesture
    /\ man.active = << >> /\ Len(man.inactive) = 2
    /\ \E t \in 1 .. Len(log) : Len(log[t].active) = 1 /\ Len(log[t].inactive) = 1

RECURSIVE History(_)
\* The calls of the frame boundaries 1 .. t, in order.
History(t) == IF t = 0 THEN << >> ELSE History(t - 1) \o log[t].tr

\* The init and update calls the Manager has made on recognizer id, in order.
ManagerCalls(id) ==
    SelectSeq(History(Len(log)), LAMBDA c : c.id = id /\ c.node = "Recognizer")

Terminal(c) == c.op = "update" /\ c.res \in {"Succeeded", "Failed"}

\* C12 as stated: for every recognizer owned by the Manager each activation
\* starts with exactly one init call that precedes its first update: every
\* update follows an init or a Continuing update of the same recognizer, and
\* no init follows another init.
C12_InitBeforeUpdate ==
    \A id \in 1 .. Len(regs) : \A h \in { ManagerCalls(id) } :
        \A j \in 1 .. Len(h) :
            /\ h[j].op = "update" =>
                  j > 1 /\ (h[j - 1].op = "init" \/ h[j - 1].res = "Continuing")
            /\ h[j].op = "init" => (j > 1 => h[j - 1].op = "update")

\* C12 (as amended): the Manager never calls update on a recognizer that has
\* returned Succeeded or Failed without one init call in between, and it
\* calls init only on a recognizer whose last call was such an update; a
\* recognizer is not initialized when it is pushed, so its first activation
\* starts with an update.
C12_InitAfterTerminal ==
    lastEv = "Frame" => \A id \in 1 .. Len(regs) : \A h \in { ManagerCalls(id) } :
        \A j \in 1 .. Len(h) :
            /\ (h[j].op = "update" /\ j > 1) =>
                  (h[j - 1].op = "init" \/ h[j - 1].res = "Continuing")
            /\ h[j].op = "init" => (j > 1 /\ Terminal(h[j - 1]))
            /\ j = 1 => h[j].op = "update"

\* C12 witness: recognizer 1 was updated from its push on without init,
\* failed, and was initialized and then updated when the next window opened.
C12_Witness ==
    /\ regs = << 3 >> /\ Len(ManagerCalls(1)) >= 4
    /\ ManagerCalls(1)[1].op = "update" /\ ManagerCalls(1)[1].res = "Continuing"
    /\ \E j \in 2 .. Len(ManagerCalls(1)) - 2 :
          /\ Terminal(ManagerCalls(1)[j])
          /\ ManagerCalls(1)[j + 1].op = "init"
          /\ ManagerCalls(1)[j + 2].op = "update"

\* The nodes of a recognizer whose update calls the history records: the
\* recognizer the Manager holds, the children of the Compositions (Rounded
\* and StraightSwipe in Line, NFingers' Constraint and swipe in Armed,
\* FingersUp in direction_swipe) and of the Constraints (NFingers with the
\* filter NoMovement, InitialAngle's Line with the filter NoRelativeMovement).
Nodes ==
    { "Recognizer", "NFingers", "NoMovement", "InitialAngle", "Rounded",
      "StraightSwipe", "NoRelativeMovement", "swipe", "FingersUp" }

\* The node whose init call marks the init of node n: Rounded and swipe only
\* pass init on, down to InitialAngle.
InitNode(n) == IF n \in {"Rounded", "swipe"} THEN "InitialAngle" ELSE n

\* The updates of node n of recognizer id and the inits of that node, in order.
NodeCalls(id, n) ==
    SelectSeq(History(Len(log)),
              LAMBDA c : /\ c.id = id
                         /\ \/ c.node = n /\ c.op = "update"
                            \/ c.node = InitNode(n) /\ c.op = "init")

RECURSIVE Requeried(_, _, _)
\* Do the calls H[i..] update a node that is done?  done holds the nodes, as
\* << id, node >>, that have returned Succeeded or Failed (a filter: Failed)
\* and have not been initialized since.
Requeried(H, i, done) ==
    IF i > Len(H) THEN FALSE
    ELSE IF H[i].op = "init"
    THEN Requeried(H, i + 1,
                   { d \in done : ~(d[1] = H[i].id /\ InitNode(d[2]) = H[i].node) })
    ELSE IF << H[i].id, H[i].node >> \in done THEN TRUE
    ELSE Requeried(H, i + 1,
                   IF Terminal(H[i]) THEN done \cup { << H[i].id, H[i].node >> } ELSE done)

\* C13: within one activation, once a recognizer or filter (the one the
\* Manager holds, or a child inside a Composition or Constraint) has returned
\* Succeeded or Failed, its update is not called again before it is
\* initialized again.  (Read after each frame boundary, where the log grows.)
C13_TerminalFinal == lastEv = "Frame" => ~Requeried(History(Len(log)), 1, { })

\* C13 witness: NFingers of recognizer 1 succeeded and was updated again only
\* after its next init, and InitialAngle failed and was updated again only
\* after its next init.
C13_Witness ==
    /\ regs = << 3 >>
    /\ \E j \in 1 .. Len(NodeCalls(1, "NFingers")) - 2 :
          /\ NodeCalls(1, "NFingers")[j].res = "Succeeded"
          /\ NodeCalls(1, "NFingers")[j + 1].op = "init"
          /\ NodeCalls(1, "NFingers")[j + 2].op = "update"
    /\ \E j \in 1 .. Len(NodeCalls(1, "InitialAngle")) - 2 :
          /\ NodeCalls(1, "InitialAngle")[j].res = "Failed"
          /\ NodeCalls(1, "InitialAngle")[j + 1].op = "init"
          /\ NodeCalls(1, "InitialAngle")[j + 2].op = "update"

\* Is recognizer id updated by the Manager during the calls tr?
Updated(tr, id) ==
    \E i \in 1 .. Len(tr) : tr[i].id = id /\ tr[i].node = "Recognizer" /\ tr[i].op = "update"

\* C14: a recognizer pushed after the Manager has already processed events
\* takes part in the next gesture window: on every frame boundary after the
\* push at which last.num_down = 0 and cur.num_down > 0, the first one
\* included, the Manager calls its update.
C14_LateRegistration ==
    [][(OpeningStep /\ ~panicked') => \A id \in 1 .. Len(regs) : Updated(trace', id)]_vars

\* C14 witness: the first boundary opened a window with no recognizer
\* pushed; recognizer 1 was pushed while the finger was down, was updated on
\* the second boundary, and has just been initialized and updated on the
\* third boundary, which opened the next window.
C14_Witness ==
    /\ Len(log) = 3 /\ lastEv = "Frame" /\ regs = << 1 >>
    /\ log[1].opened /\ log[1].active = << >> /\ log[1].inactive = << >>
    /\ ~log[2].opened /\ Updated(log[2].tr, 1)
    /\ log[3].opened /\ InitThenUpdate(trace, 1)

\* This step is Manager::update on the device's next event, of the given kind.
DeliverStep(kind) == queue # << >> /\ Head(queue).kind = kind /\ queue' = Tail(queue)

\* Is the slot of the device's next event in range and marked down in cur?
NextSlotDown ==
    Head(queue).slot < MAX_SLOTS /\ man.frame.cur.down[Head(queue).slot]

\* Is it in range and not marked down?
NextSlotUp ==
    Head(queue).slot < MAX_SLOTS /\ ~man.frame.cur.down[Head(queue).slot]

\* C15: a touch-down for a slot that is already down, and a touch-up for a
\* slot that is not down, leave the whole Frame unchanged: presence, stored
\* positions, num_down, touch_down and touch_up, in cur and in last.
C15_AnomalyDropped ==
    [][/\ (DeliverStep("Down") /\ NextSlotDown) => man'.frame = man.frame
       /\ (DeliverStep("Up") /\ NextSlotUp) => man'.frame = man.frame]_vars

\* C15 witness: slot 0 went down at x = 0 in an earlier tick and the driver
\* has just reported it down again at x = 12 mm; the stored position is
\* still x = 0, num_down is 1 and touch_down is not set.
C15_Witness ==
    /\ given = Event("Down", 0, 12, 0) /\ ~panicked
    /\ ~edges.down /\ ~man.frame.touch_down
    /\ man.frame.last.down[0] /\ man.frame.cur.down[0]
    /\ man.frame.cur.pos[0] = Zero /\ man.frame.cur.num_down = 1

\* C16: any touch event (down, up or motion) whose slot index is >= MAX_SLOTS
\* is dropped with the Frame unchanged, and Manager.update returns normally
\* to the caller.  (Refuted: only the Down arm tests the slot; the Up arm
\* indexes cur.down and the Motion arm indexes cur.pos with it, which panics.)
C16_OutOfRangeAbsorbed ==
    [][\A kind \in {"Down", "Up", "Motion"} :
          (DeliverStep(kind) /\ Head(queue).slot >= MAX_SLOTS) =>
              man'.frame = man.frame /\ ~panicked']_vars

\* What the code does with an out-of-range slot: a touch-down is dropped and
\* Manager.update returns None; a touch-up or a motion ends the program.
C16_Observed ==
    [][\A kind \in {"Down", "Up", "Motion"} :
          (DeliverStep(kind) /\ Head(queue).slot >= MAX_SLOTS) =>
              IF kind = "Down"
              THEN man'.frame = man.frame /\ ~panicked' /\ ret' = NoGesture
              ELSE panicked']_vars

\* Does the count of snapshot s equal the number of slots it marks down, and
\* lie within 0 .. MAX_SLOTS?
Counted(s) ==
    /\ s.num_down = Cardinality({ i \in Slots : s.down[i] })
    /\ 0 <= s.num_down /\ s.num_down <= MAX_SLOTS

\* C17: after any sequence of driver events and frame boundaries, frame.cur
\* and frame.last satisfy num_down = number of slots marked down, hence
\* 0 <= num_down <= MAX_SLOTS; and so do the snapshots the filters keep by
\* set_down, set_up and merge (NoMovement's init_pos, NoRelativeMovement's
\* init_rel_pos).
C17_CountInvariant ==
    /\ Counted(man.frame.cur)
    /\ Counted(man.frame.last)
    /\ \A i \in 1 .. Len(Owned) : Counted(Owned[i].nm) /\ Counted(Owned[i].nrm)

\* C17 witness: a second finger has come down during a one-finger swipe, so
\* that NoRelativeMovement merged it into its snapshot of one finger; the
\* frame and that snapshot count two, NoMovement's snapshot counts one.
C17_Witness ==
    /\ lastEv = "Frame" /\ regs = << 1 >> /\ Len(Owned) = 1
    /\ man.frame.cur.num_down = 2 /\ man.frame.last.num_down = 2
    /\ Owned[1].nm.num_down = 1 /\ Owned[1].nrm.num_down = 2
    /\ Called(trace, 1, "NoRelativeMovement", "update", "Passed")

\* C18: immediately after every Manager.update on a frame-boundary event,
\* frame.touch_down and frame.touch_up are false and frame.last equals
\* frame.cur, the cur of that tick; no other step changes frame.last, so
\* between boundaries frame.last is the state as of the previous boundary.
C18_Advance ==
    [][IF DeliverStep("Frame")
       THEN ~panicked' =>
                /\ ~man'.frame.touch_down /\ ~man'.frame.touch_up
                /\ man'.frame.cur = man.frame.cur
                /\ man'.frame.last = man.frame.cur
       ELSE man'.frame.last = man.frame.last]_vars

\* C18 witness: a frame boundary has just closed a tick in which one of two
\* fingers lifted: the flags are clear and last is the new cur, one finger.
C18_Witness ==
    /\ given = FrameEvent /\ ~panicked /\ Len(log) = 2
    /\ log[1].num_down = 2 /\ log[2].num_down = 1
    /\ ~man.frame.touch_down /\ ~man.frame.touch_up
    /\ man.frame.last = man.frame.cur /\ man.frame.last.num_down = 1

\* C19: at each frame boundary touch_down is true if and only if at least
\* one accepted touch-down (one that added a finger to cur) occurred since
\* the previous frame boundary, and touch_up is true if and only if at least
\* one accepted touch-up (one that removed a finger) occurred since then:
\* the flags are not a difference of cur and last.
C19_EdgeFlags ==
    ~panicked =>
        /\ man.frame.touch_down = edges.down
        /\ man.frame.touch_up = edges.up

\* C19 witness: the frame boundary is the device's next event; since the
\* previous boundary slot 0 has gone down and up again, so that both flags
\* are set although cur and last mark the same slots down (slot 1 only).
C19_Witness ==
    /\ queue = << FrameEvent >> /\ ~panicked /\ Len(log) >= 1
    /\ given = Event("Up", 0, 0, 0) /\ edges.down /\ edges.up
    /\ man.frame.touch_down /\ man.frame.touch_up
    /\ man.frame.cur.down = man.frame.last.down
    /\ man.frame.cur.down[1] /\ ~man.frame.cur.down[0]

\* What NFingers(n) is to return on a tick, by the claim: Failed if a finger
\* went up or more than n are down, Succeeded if exactly n are down,
\* Continuing otherwise.
NFingersVerdict(n, up, num_down) ==
    IF up \/ num_down > n THEN "Failed"
    ELSE IF num_down = n THEN "Succeeded"
    ELSE "Continuing"

\* C20: NFingers(n).update returns Failed if touch_up is set or
\* cur.num_down > n in that tick, otherwise Succeeded if cur.num_down = n,
\* otherwise Continuing; so a tick with both a lift and exactly n fingers
\* down fails.
C20_NFingersDecision ==
    [][FrameStep =>
          \A id \in 1 .. Len(regs) :
              \A res \in {"Continuing", "Succeeded", "Failed", "Panic"} :
                  Called(trace', id, "NFingers", "update", res) =>
                      res = NFingersVerdict(regs[id], man.frame.touch_up,
                                            man.frame.cur.num_down)]_vars

\* C20 witness: NFingers(1) was Continuing on a tick with no finger down;
\* in the next tick two fingers came down and slot 0 lifted again, and on
\* that boundary, with exactly one finger down, NFingers(1) returned Failed.
C20_Witness ==
    /\ regs = << 1 >> /\ Len(log) = 2 /\ lastEv = "Frame"
    /\ log[1].num_down = 0 /\ Called(log[1].tr, 1, "NFingers", "update", "Continuing")
    /\ log[2].num_down = 1 /\ man.frame.cur.down[1] /\ ~man.frame.cur.down[0]
    /\ man.frame.cur.pos[0] = Zero
    /\ Called(log[2].tr, 1, "NFingers", "update", "Failed")

\* FingersUp::update's result, told from the frame's touch_down flag and the
\* number of fingers down.
FingersUpVerdict(down, num_down) ==
    IF down THEN "Failed"
    ELSE IF num_down = 0 THEN "Succeeded"
    ELSE "Continuing"

\* C21: FingersUp.update returns Failed if touch_down is set in that tick,
\* otherwise Succeeded if cur.num_down = 0, otherwise Continuing; a lift that
\* leaves some finger down keeps it Continuing.
C21_FingersUpDecision ==
    [][FrameStep =>
          \A id \in 1 .. Len(regs) :
              \A res \in {"Continuing", "Succeeded", "Failed", "Panic"} :
                  Called(trace', id, "FingersUp", "update", res) =>
                      res = FingersUpVerdict(man.frame.touch_down,
                                             man.frame.cur.num_down)]_vars

\* C21 witness: the swipe stage succeeded on a lift, and on the next tick
\* another finger lifted while one stayed down: FingersUp returned Continuing.
C21_Witness ==
    /\ Len(log) = 4 /\ lastEv = "Frame"
    /\ Called(log[3].tr, 1, "swipe", "update", "Succeeded")
    /\ log[4].plan.kind = "Lift" /\ log[4].num_down > 0
    /\ Called(log[4].tr, 1, "FingersUp", "update", "Continuing")

\* The InitialAngle state (init_pos) of recognizer id among the recognizers a
\* frame boundary dispatches.
InitPosOf(id) ==
    LET i == CHOOSE k \in 1 .. Len(Dispatched) : Dispatched[k].id = id
    IN  Dispatched[i].ia

\* C22: an InitialAngle built by InitialAngle::new(), as direction_swipe
\* uses it, fails on a tick with touch_up or touch_down, and otherwise
\* succeeds as soon as the mean finger position is strictly more than 1.0 mm
\* from the mean position cached at init.  (Refuted: InitialAngle::new() sets
\* the threshold to 5.0, so a mean movement of 3 mm leaves it Continuing.)
C22_DefaultThreshold ==
    [][FrameStep =>
          \A id \in 1 .. Len(regs) :
              \A res \in {"Continuing", "Succeeded", "Failed", "Panic"} :
                  Called(trace', id, "InitialAngle", "update", res) =>
                      res = IF man.frame.touch_up \/ man.frame.touch_down THEN "Failed"
                            ELSE IF LongerThan(PSub(mean_pos(man.frame.cur), InitPosOf(id)), 1)
                            THEN "Succeeded"
                            ELSE "Continuing"]_vars

\* What the code does: three fingers land at x = 0, 10, 20 and move 3 mm to
\* the right; InitialAngle, 3 mm from its cached position, returns Continuing.
C22_Observed ==
    /\ regs = << 3 >>
    /\ Ran(<< Plan("Land", 3, Pt(0, 0)), Plan("Move", 3, Pt(3, 0)) >>)
    /\ PSub(log[2].mean, log[1].mean) = Pt(Mm(3), 0)
    /\ Called(log[2].tr, 1, "InitialAngle", "update", "Continuing")

\* The canonical angle of a direction, in degrees.
Canonical(d) ==
    CASE d = "Right" -> 0 [] d = "Up" -> 90 [] d = "Left" -> 180 [] d = "Down" -> 270

\* The distance round the circle between angle a and d's canonical angle.
CircularDistance(a, d) ==
    LET x == (a - Deg(Canonical(d))) % FullTurn
    IN  Min(x, FullTurn - x)

\* The directions whose canonical angle is within t of a.
Within(a, t) == { d \in Directions : CircularDistance(a, d) <= t }

\* C24 as stated: for t <= 45 degrees from_angle(a, t) returns Some(d) exactly
\* when the circular distance between a and d's canonical angle is at most
\* t, and None when no direction is within t.  (Refuted at t = 45 degrees:
\* 45 degrees is within t of both Right and Up, and Right is returned.)
C24_ExactlyWithin ==
    (val.fn = "from_angle") =>
        /\ \A d \in Directions : (val.out = d) <=> (d \in Within(arg.a, arg.t))
        /\ (val.out = "None") <=> (Within(arg.a, arg.t) = { })

\* How far d's canonical angle lies below angle a, going round the circle.
Below(a, d) == (a - Deg(Canonical(d))) % FullTurn

\* C24, amended: from_angle(a, t) returns a direction whose canonical angle
\* is within circular distance t of a, wrapping through 360 degrees, and None
\* when there is none; when two directions are within t (t = 45 degrees, a
\* an odd multiple of 45 degrees) it returns the one whose canonical angle
\* lies below a; from_angle(d.to_angle(), t) is Some(d).
C24_NearestBelow ==
    (val.fn = "from_angle") =>
        /\ val.out =
               IF Within(arg.a, arg.t) = { } THEN "None"
               ELSE CHOOSE d \in Within(arg.a, arg.t) :
                        \A e \in Within(arg.a, arg.t) : Below(arg.a, d) <= Below(arg.a, e)
        /\ \A d \in Directions : arg.a = Direction_to_angle(d) => val.out = d

\* C24 witness: from_angle(351 degrees, 10 degrees) returned Right.
C24_Witness ==
    /\ val.fn = "from_angle" /\ arg.a = Deg(351) /\ arg.t = Deg(10)
    /\ val.out = "Right"

\* C25: for every r and every integer k, Angle::from_radians(r) and
\* Angle::from_radians(r + k full turns) are equal Angles whose
\* representative lies in [0, full turn); from_degrees(360) equals
\* from_radians(0).  (Refuted: for the least f64 below zero the subtraction
\* r - 2.0 * PI * (-1) rounds to 2.0 * PI itself, which is not below a full
\* turn, and r + 2.0 * PI normalizes to 0.)
C25_Periodic ==
    /\ (val.fn = "from_radians") =>
           /\ val.out.plain = val.out.turned
           /\ 0 <= val.out.plain /\ val.out.plain < FullTurn
    /\ Angle_from_degrees(360) = Angle_from_radians(0)

\* What the code does for an r just below zero: r itself normalizes to a
\* full turn, r plus one full turn to zero.
C25_Observed ==
    /\ val.fn = "from_radians" /\ arg.r = -1 /\ arg.k = 1
    /\ val.out.plain = FullTurn
    /\ val.out.turned = 0

\* On the whole degrees normalization is periodic and stays below a full turn.
C25_WholeDegrees ==
    (val.fn = "from_radians" /\ arg.r % Deg(1) = 0) =>
        /\ val.out.plain = val.out.turned
        /\ 0 <= val.out.plain /\ val.out.plain < FullTurn

\* C23: StraightSwipe.update decides in this order: touch_down gives Failed
\* (even with touch_up set); else touch_up gives Succeeded(LiftedFinger) if
\* |cur.mean_pos() - init_pos| > min_length and Failed if not; else, with
\* diff = cur.mean_pos() - last_pos, |diff| < step gives Continuing with
\* last_pos and angle unchanged, and |diff| >= step samples the angle: a
\* deviation over angle_tolerance gives Succeeded(ChangedAngle) if the total
\* displacement is over min_length and Failed if not, a deviation within it
\* sets last_pos to cur.mean_pos() and gives Continuing.
C23_DecisionOrder ==
    (val.fn = "StraightSwipe") =>
        LET f == arg.frame
            pos == mean_pos(f.cur)
            far == LenSq(PSub(pos, arg.ss.init_pos)) > Mm(MinLength) * Mm(MinLength)
            stepped == LenSq(PSub(pos, arg.ss.last_pos)) >= Mm(Step) * Mm(Step)
            bent == Angle_abs(Angle_sub(MoveAngle(PSub(pos, arg.ss.last_pos)), arg.ss.angle))
                        > Deg(AngleTolerance)
            res == val.out.res
            ended(reason) ==
                IF far THEN res.tag = "Succeeded" /\ res.val.reason = reason
                ELSE res = Failed
        IN  IF f.touch_down THEN res = Failed
            ELSE IF f.touch_up THEN ended("LiftedFinger")
            ELSE IF ~stepped THEN res = Continuing /\ val.out.st = arg.ss
            ELSE IF bent THEN ended("ChangedAngle")
            ELSE res = Continuing /\ val.out.st.last_pos = pos

\* C23 witness: with last_pos 6 mm and the finger 9 mm along the swipe's
\* axis, |diff| equals step: the angle was sampled, last_pos moved to the
\* finger, and the result was Continuing.
C23_Witness ==
    /\ val.fn = "StraightSwipe"
    /\ ~arg.frame.touch_down /\ ~arg.frame.touch_up
    /\ arg.ss.last_pos = Pt(Mm(6), 0) /\ arg.ss.angle = Direction_to_angle("Right")
    /\ mean_pos(arg.frame.cur) = Pt(Mm(9), 0)
    /\ val.out.res = Continuing /\ val.out.st.last_pos = Pt(Mm(9), 0)

\* The other arms of StraightSwipe.update were taken as well.
C23_ArmsTaken ==
    /\ val.fn = "StraightSwipe"
    /\ arg.frame.touch_down /\ arg.frame.touch_up
    /\ LongerThan(mean_pos(arg.frame.cur), MinLength)
    /\ val.out.res = Failed

\* The words of a gesture string follow the spec's grammar
\* "swipe" [num_fingers] direction, num_fingers being /[0-9]+/.
Grammatical(words) ==
    /\ Len(words) \in {2, 3}
    /\ words[1] = Word_swipe
    /\ DirectionNamed(words[Len(words)]) # "None"
    /\ Len(words) = 3 =>
           /\ words[2] # << >>
           /\ \A i \in 1 .. Len(words[2]) : IsDigit(words[2][i])

RECURSIVE Decimal(_, _)
\* The number the first n digits of w write.
Decimal(w, n) == IF n = 0 THEN 0 ELSE 10 * Decimal(w, n - 1) + DigitValue(w[n])

\* The gesture a grammatical string denotes: an omitted finger count means 3.
Denoted(words) ==
    Swipe(IF Len(words) = 3 THEN Decimal(words[2], Len(words[2])) ELSE 3,
          DirectionNamed(words[Len(words)]))

\* C26: building the bindings map fails when two binding entries denote the
\* same gesture, an omitted finger count meaning 3, and a gesture string
\* that does not match the grammar is rejected rather than bound.  (Refuted:
\* "swipe +3 up" is not in the grammar, and parse::<u8> takes "+3" for 3, so
\* the entry is bound to Swipe{3, Up}.)
C26_DuplicatesFatal ==
    (val.fn = "to_config") =>
        LET words == [i \in 1 .. Len(arg.bindings) |-> split_whitespace(arg.bindings[i])]
        IN  /\ (\E i, j \in 1 .. Len(words) :
                    /\ i < j /\ Grammatical(words[i]) /\ Grammatical(words[j])
                    /\ Denoted(words[i]) = Denoted(words[j]))
                   => val.out.tag # "Ok"
            /\ (\E i \in 1 .. Len(words) : ~Grammatical(words[i])) => val.out.tag # "Ok"

\* What the code does with the one entry "swipe +3 up": the map is built,
\* with the entry bound to Swipe{3, Up}.
C26_Observed ==
    /\ val.fn = "to_config"
    /\ arg.bindings = << Join(<< Word_swipe, << "+", "3" >>, Word_up >>) >>
    /\ val.out = [tag |-> "Ok", bindings |-> { [gesture |-> Swipe(3, "Up"), action |-> 1] }]

\* With a finger count of digits only, the claim holds: duplicates and
\* strings outside the grammar make to_config fail.
C26_DigitsOnly ==
    (val.fn = "to_config"
        /\ \A i \in 1 .. Len(arg.bindings) : \A k \in 1 .. Len(arg.bindings[i]) :
               arg.bindings[i][k] # "+") => C26_DuplicatesFatal

\* The places in the calls tr of recognizer id's calls of op on node.
Places(tr, id, node, op) ==
    { i \in 1 .. Len(tr) : tr[i].id = id /\ tr[i].node = node /\ tr[i].op = op }

\* The tag recognizer id's node returned from update in the calls tr.
Tag(tr, id, node) ==
    tr[CHOOSE i \in Places(tr, id, node, "update") : TRUE].res

\* In the calls tr of one tick, the first recognizer of a Composition of
\* recognizer id (seen at node a) succeeded: the second (seen at node b) is
\* initialized after that and not updated, and the Composition (seen at
\* node c) returns Continuing.
HandsOff(tr, id, a, b, c) ==
    Called(tr, id, a, "update", "Succeeded") =>
        /\ Places(tr, id, b, "init") # { }
        /\ \A i \in Places(tr, id, a, "update"), j \in Places(tr, id, b, "init") : i < j
        /\ Places(tr, id, b, "update") = { }
        /\ Called(tr, id, c, "update", "Continuing")

\* In the calls tr of one tick, the second recognizer of a Composition of
\* recognizer id (seen at node b) is updated: the nodes of the first are
\* not, and, forwarded is TRUE or the Composition (seen at node c) returns what
\* the second returned.
Forwards(tr, id, firsts, b, c, forwarded) ==
    Places(tr, id, b, "update") # { } =>
        /\ \A a \in firsts : Places(tr, id, a, "update") = { }
        /\ forwarded => Tag(tr, id, c) = Tag(tr, id, b)

\* The recognizer the Manager holds under id.
Held(id) == Owned[CHOOSE k \in 1 .. Len(Owned) : Owned[k].id = id]

\* C27: on the tick where A returns Succeeded(x), A.and_then(B) calls
\* B.init(x, frame) with that tick's frame and returns Continuing, B.update
\* being first called on a later tick; once on B it returns B's result
\* and does not update A.  Stated of the three Compositions of
\* direction_swipe: NFingers then swipe, InitialAngle (rounded) then
\* StraightSwipe, swipe then FingersUp.
C27_HandOff ==
    (lastEv = "Frame" /\ ~panicked) =>
        \A id \in 1 .. Len(regs) :
            /\ HandsOff(trace, id, "NFingers", "InitialAngle", "Recognizer")
            /\ HandsOff(trace, id, "Rounded", "StraightSwipe", "swipe")
            /\ HandsOff(trace, id, "swipe", "FingersUp", "Recognizer")
            /\ Called(trace, id, "NFingers", "update", "Succeeded") =>
                   Held(id).ia = mean_pos(man.frame.cur)
            /\ Called(trace, id, "Rounded", "update", "Succeeded") =>
                   /\ Held(id).ss.init_pos = Held(id).ia
                   /\ Held(id).ss.angle = Direction_to_angle(Held(id).ssc)
            /\ Forwards(trace, id, {"NFingers", "NoMovement"}, "swipe", "Recognizer",
                        Tag(trace, id, "swipe") # "Succeeded")
            /\ Forwards(trace, id, {"InitialAngle", "Rounded"}, "StraightSwipe", "swipe",
                        Tag(trace, id, "StraightSwipe") # "Succeeded")
            /\ Forwards(trace, id, {"NFingers", "NoMovement", "NoRelativeMovement",
                                    "InitialAngle", "Rounded", "StraightSwipe", "swipe"},
                        "FingersUp", "Recognizer", TRUE)

\* C27 witness: on tick 3 the swipe stage succeeded, FingersUp was
\* initialized and the recognizer returned Continuing; on tick 4 FingersUp
\* was updated for the first time, succeeded, and so did the recognizer.
C27_Witness ==
    /\ Len(log) = 4 /\ lastEv = "Frame"
    /\ Called(log[3].tr, 1, "swipe", "update", "Succeeded")
    /\ Called(log[3].tr, 1, "FingersUp", "init", NoVal)
    /\ Called(log[3].tr, 1, "Recognizer", "update", "Continuing")
    /\ Called(trace, 1, "FingersUp", "update", "Succeeded")
    /\ Called(trace, 1, "Recognizer", "update", "Succeeded")

\* C28: every update of A.constrain(F) updates the filter F first; if F
\* returns Failed the composite returns Failed and A.update is not called on
\* that tick, even if A would have succeeded; otherwise A is updated next and
\* the composite returns exactly A's result.  init initializes A and then F
\* with the same frame.  Stated of NFingers(n).constrain(NoMovement).
C28_FilterFirst ==
    (val.fn = "Constraint") =>
        LET f == arg.frame
            tr == val.out.tr
            slid == MeanDistOver(f.cur, arg.r.nm, NoMovementThreshold)
        IN  IF arg.op = "init"
            THEN /\ tr = << Call("NFingers", "init", NoVal), Call("NoMovement", "init", NoVal) >>
                 /\ val.out.st.nm = f.cur
            ELSE IF slid
            THEN /\ tr = << Call("NoMovement", "update", "Failed") >>
                 /\ val.out.res = Failed
            ELSE /\ Len(tr) = 2
                 /\ tr[1] = Call("NoMovement", "update", "Passed")
                 /\ tr[2] = Call("NFingers", "update", val.out.res.tag)
                 /\ val.out.res.tag = NFingersVerdict(arg.r.n, f.touch_up, f.cur.num_down)

\* C28 witness: two fingers are down, none lifted, so NFingers(2) would
\* succeed; finger 0 has slid 2 mm, NoMovement failed, the composite returned
\* Failed and NFingers was not updated.
C28_Witness ==
    /\ val.fn = "Constraint" /\ arg.op = "update"
    /\ NFingersVerdict(arg.r.n, arg.frame.touch_up, arg.frame.cur.num_down) = "Succeeded"
    /\ arg.frame.cur.pos[0] = Pt(Mm(2), 0) /\ arg.r.nm.down[1]
    /\ val.out.res = Failed
    /\ val.out.tr = << Call("NoMovement", "update", "Failed") >>

\* C29: with direction_swipe(3) registered, tick 1 = down(0,0,0),
\* down(1,10,0), down(2,20,0) and tick 2 = motion(0,5,0) only, the
\* NFingers(3)-constrained-by-NoMovement stage is still running at tick 2 and
\* returns Failed there, the mean distance from the init snapshot being over
\* 1 mm: the candidate is rejected by the NoMovement filter.  (Refuted:
\* NFingers(3) succeeds on tick 1, with the three fingers down, so on tick 2
\* NoMovement is not consulted and the recognizer goes on.)
C29_RejectedByNoMovement ==
    (plan = Plan("Slide", 0, Pt(5, 0)) /\ Len(log) >= 2) =>
        /\ Called(log[2].tr, 1, "NoMovement", "update", "Failed")
        /\ Called(log[2].tr, 1, "Recognizer", "update", "Failed")
        /\ log[2].inactive = << 1 >>

\* What the code does: NFingers succeeded on tick 1; on tick 2 neither
\* NoMovement nor NFingers is updated, InitialAngle returns Continuing (the
\* mean has moved 5/3 mm) and the recognizer stays active.
C29_Observed ==
    /\ plan = Plan("Slide", 0, Pt(5, 0)) /\ Len(log) = 2 /\ lastEv = "Frame"
    /\ Called(log[1].tr, 1, "NFingers", "update", "Succeeded")
    /\ Places(trace, 1, "NoMovement", "update") = { }
    /\ Places(trace, 1, "NFingers", "update") = { }
    /\ Called(trace, 1, "NoRelativeMovement", "update", "Passed")
    /\ Called(trace, 1, "InitialAngle", "update", "Continuing")
    /\ Called(trace, 1, "Recognizer", "update", "Continuing")
    /\ log[2].active = << 1 >>

\* With the one finger sliding any of the distances, NoMovement never fails.
C29_NeverRejected ==
    \A t \in 1 .. Len(log) : ~Called(log[t].tr, 1, "NoMovement", "update", "Failed")

\* The reason StraightSwipe gave on tick t, where it succeeded: LiftedFinger
\* on a tick in which a finger lifted, else ChangedAngle.
ReasonOn(t) == IF log[t].plan.kind = "Lift" THEN "LiftedFinger" ELSE "ChangedAngle"

\* C30: direction_swipe returns a direction only if its StraightSwipe stage
\* ended with reason LiftedFinger; when StraightSwipe succeeds with
\* ChangedAngle, FilterOutcome turns the success into Failed, the candidate
\* is retired and no gesture is returned for the rest of that window.
\* (Read after each frame boundary, where the log grows.)
C30_OnlyLifted ==
    lastEv = "Frame" => \A t \in 1 .. Len(log) : \A id \in 1 .. Len(regs) :
        /\ Called(log[t].tr, id, "StraightSwipe", "update", "Succeeded") =>
               IF ReasonOn(t) = "LiftedFinger"
               THEN Called(log[t].tr, id, "swipe", "update", "Succeeded")
               ELSE /\ Called(log[t].tr, id, "swipe", "update", "Failed")
                    /\ Called(log[t].tr, id, "Recognizer", "update", "Failed")
                    /\ Among(id, log[t].inactive)
                    /\ \A u \in t .. Len(log) : t \in Window(u) => log[u].ret = NoGesture
        /\ Called(log[t].tr, id, "Recognizer", "update", "Succeeded") =>
               ReasonOn(Latest(TicksWhere(t, id, "StraightSwipe", "Succeeded")))
                   = "LiftedFinger"

\* C30 witness: three fingers moved 12 mm to the right, then bent away to
\* 12.4 mm from the start; StraightSwipe succeeded with ChangedAngle on tick
\* 3, the swipe stage returned Failed, and the lift of tick 4 returned nothing.
C30_Witness ==
    /\ regs = << 3 >> /\ Len(log) = 4 /\ lastEv = "Frame"
    /\ log[2].plan = Plan("Move", 3, Pt(12, 0))
    /\ log[3].plan = Plan("Move", 3, Pt(3, 12))
    /\ Called(log[3].tr, 1, "StraightSwipe", "update", "Succeeded")
    /\ Called(log[3].tr, 1, "swipe", "update", "Failed")
    /\ log[4].plan.kind = "Lift" /\ log[4].ret = NoGesture

\* The recognizers with this id among those the Manager m owns.
Holding(m, id) ==
    { m.active[i] : i \in { k \in 1 .. Len(m.active) : m.active[k].id = id } }
        \cup { m.inactive[i] : i \in { k \in 1 .. Len(m.inactive) : m.inactive[k].id = id } }

\* How often recognizer id is given this call during the calls tr.
Times(tr, id, op) ==
    Cardinality({ k \in 1 .. Len(tr) :
                    tr[k].id = id /\ tr[k].node = "Recognizer" /\ tr[k].op = op })

\* C31: on a frame boundary that opens a gesture window the Manager calls init
\* only on recognizers that are in inactive; a recognizer that is in active is
\* not initialized, is updated exactly once, with that frame and from the
\* state it had (what it becomes and the calls it makes are those of one
\* update of the state it had before the boundary), and each re-armed
\* recognizer is likewise updated exactly once.
C31_ActiveKept ==
    [][OpeningStep =>
          /\ \A k \in 1 .. Len(trace') :
                (trace'[k].node = "Recognizer" /\ trace'[k].op = "init")
                    => Among(trace'[k].id, Ids(man.inactive))
          /\ \A i \in 1 .. Len(man.inactive) : Times(trace', man.inactive[i].id, "update") = 1
          /\ \A i \in 1 .. Len(man.active) :
                \A u \in { Recognizer_update(man.active[i], man.frame) } :
                    /\ Times(trace', man.active[i].id, "init") = 0
                    /\ Times(trace', man.active[i].id, "update") = 1
                    /\ Holding(man', man.active[i].id) = { u.st }
                    /\ \A k \in 1 .. Len(u.tr) :
                          Called(trace', man.active[i].id, u.tr[k].node, u.tr[k].op, u.tr[k].res)]_vars

\* C31 witness: direction_swipe(3) alone; the fingers swiped and lifted on tick
\* 3, leaving the recognizer in active, waiting in FingersUp; fingers land on
\* tick 4, the window opens, and the recognizer is updated as it was (its
\* FingersUp fails on the touch-down) without having been initialized.
C31_Witness ==
    /\ regs = << 3 >> /\ Len(log) = 4 /\ lastEv = "Frame"
    /\ log[3].active = << 1 >> /\ log[3].inactive = << >>
    /\ log[4].opened
    /\ Times(trace, 1, "init") = 0 /\ Times(trace, 1, "update") = 1
    /\ Called(trace, 1, "FingersUp", "update", "Failed")
    /\ log[4].inactive = << 1 >>

\* C32: of two runs of the Manager on event sequences that differ only in
\* motion events for slots that are not down (slot < MAX_SLOTS), every update
\* on an event both runs have returns the same in both, every update on an
\* event only one run has returns None, and the presence set and num_down of
\* the two Frames are the same after every event.
C32_UnfeltMotion ==
    /\ lastEv # "Alone" => (ret = val.ret /\ panicked = val.panic)
    /\ lastEv = "Alone" => (ret = NoGesture /\ ~panicked)
    /\ man.frame.cur.down = val.man.frame.cur.down
    /\ man.frame.cur.num_down = val.man.frame.cur.num_down
    /\ man.frame.touch_down = val.man.frame.touch_down
    /\ man.frame.touch_up = val.man.frame.touch_up

\* C32 witness: one run was given a motion for a slot that was up, so that
\* the two Frames hold different positions for it, and both runs have just
\* returned the same swipe.
C32_Witness ==
    /\ lastEv = "Frame" /\ ret # NoGesture /\ ret = val.ret
    /\ \E s \in { 0, 1 } :
          /\ ~man.frame.cur.down[s]
          /\ man.frame.cur.pos[s] # val.man.frame.cur.pos[s]

\* C33: a direction_swipe that Manager::update initializes returns, and every
\* primitive, filter and combinator in it returns, on every frame from that
\* init on, what a newly constructed direction_swipe initialized on the same
\* frame returns: the calls made on every event, each with its result, and
\* the value Manager::update returns are the same for the recognizer with
\* earlier activations behind it and for the one without, and so is the list
\* (active or inactive) the recognizer is left in.
C33_InitErases ==
    /\ trace = val.tr
    /\ ret = val.ret
    /\ panicked = val.panic
    /\ Ids(man.active) = Ids(val.man.active)
    /\ Ids(man.inactive) = Ids(val.man.inactive)

\* C33 witness: the recognizer went through a whole swipe in a first window
\* and was initialized when a second window opened; on the tick after that
\* its InitialAngle returns Continuing, as that of the recognizer constructed
\* anew does, while the two still differ in what the first window left in
\* the StraightSwipe.
C33_Witness ==
    /\ lastEv = "Frame" /\ ticks = 6
    /\ Called(trace, 1, "InitialAngle", "update", "Continuing")
    /\ trace = val.tr
    /\ Ids(man.active) = << 1 >>
    /\ man.active # val.man.active
    /\ \E r \in Holding(man, 1) : r.ss # StraightSwipe_new
    /\ \A r \in Holding(val.man, 1) : r.ss = StraightSwipe_new

\* The slots down in both Snapshots.
Shared(s, o) == { i \in Slots : s.down[i] /\ o.down[i] }

\* C34: Snapshot.mean_dist(other) is the sum of the distances between the two
\* snapshots' positions over the slots down in both, divided by the number of
\* such slots (zero when there is none), whatever other slots are down in
\* only one of the two; and mean_dist(s, s) = 0.  (Refuted: the sum is
\* divided by self.num_down, which also counts the slots down in self only.)
C34_MeanOverShared ==
    (arg.fn = "mean_dist" /\ val # NoCall) =>
        /\ val.out = IF Shared(arg.s, arg.o) = { } THEN 0
                     ELSE SumDist(0, arg.s, arg.o) \div Cardinality(Shared(arg.s, arg.o))
        /\ arg.s = arg.o => val.out = 0

\* What the code does: with fingers 0 and 1 down in self, 5 mm from where
\* they are in other, and finger 1 not down in other, mean_dist is 2.5 mm.
C34_Observed ==
    /\ arg.fn = "mean_dist" /\ val # NoCall
    /\ Shared(arg.s, arg.o) = { 0 }
    /\ arg.s.num_down = 2 /\ arg.s.down[1]
    /\ SumDist(0, arg.s, arg.o) = Mm(5) * Fine
    /\ 2 * val.out = Mm(5) * Fine

\* The parts of C34 that hold: the mean is taken over the fingers down in
\* self, so it is the mean over the shared slots whenever every finger of
\* self is down in other too, and it is zero for a snapshot and itself.
C34_OverOwnFingers ==
    (arg.fn = "mean_dist" /\ val # NoCall) =>
        /\ val.out = IF arg.s.num_down = 0 THEN 0
                     ELSE SumDist(0, arg.s, arg.o) \div arg.s.num_down
        /\ Shared(arg.s, arg.o) = { i \in Slots : arg.s.down[i] } =>
              val.out = IF Shared(arg.s, arg.o) = { } THEN 0
                        ELSE SumDist(0, arg.s, arg.o) \div Cardinality(Shared(arg.s, arg.o))
        /\ mean_dist(arg.s, arg.s) = 0

\* Of the frames F, the one in which finger i, down in F[m], came down (or
\* the first, the init frame, if it has been down ever since).
Arrival(F, m, i) ==
    CHOOSE j \in 1 .. m :
        /\ \A h \in j .. m : F[h].cur.down[i]
        /\ j = 1 \/ ~F[j - 1].cur.down[i]

\* The mean distance, as Snapshot::mean_dist takes it, of the fingers of F[m]
\* that were down in F[m - 1] too from where each was when it came down.
Drifted(F, m) ==
    LET moved(i) == Length(PSub(F[m].cur.pos[i], F[Arrival(F, m - 1, i)].cur.pos[i]))
        both == { i \in Slots : F[m].cur.down[i] /\ F[m - 1].cur.down[i] }
        RECURSIVE sum(_)
        sum(S) == IF S = { } THEN 0
                  ELSE LET i == CHOOSE x \in S : TRUE IN moved(i) + sum(S \ { i })
    IN  sum(both) \div F[m].cur.num_down

\* C35: as long as NoMovement has passed, its update leaves the stored
\* position of every finger that stays down as it was: after a pass the
\* stored presence set and num_down are those of cur, and the stored position
\* of each finger down is where that finger was at init or, if it came down
\* later, when it came down; the next update passes exactly if the mean
\* distance from those positions is at most the threshold, so that a drift
\* adds up over the ticks; and a failing update changes nothing.
C35_OriginalBound ==
    (arg.fn = "NoMovement" /\ val # NoCall) =>
        \A F \in { << arg.init >> \o arg.frames } :
            \A k \in 1 .. Len(val.out) :
                (\A h \in 1 .. k - 1 : val.out[h].passed) =>
                    /\ val.out[k].passed <=> (Drifted(F, k + 1) <= Mm(NoMovementThreshold) * Fine)
                    /\ val.out[k].passed =>
                          /\ val.out[k].st.down = F[k + 1].cur.down
                          /\ val.out[k].st.num_down = F[k + 1].cur.num_down
                          /\ \A i \in Slots :
                                F[k + 1].cur.down[i] =>
                                    val.out[k].st.pos[i] = F[Arrival(F, k + 1, i)].cur.pos[i]
                    /\ ~val.out[k].passed =>
                          val.out[k].st = IF k = 1 THEN arg.init.cur ELSE val.out[k - 1].st

\* C35 witness: finger 0 alone moves 1 mm in each of two ticks; the first
\* update passes and the second, 2 mm from where the finger was at init but
\* only 1 mm from where it was a tick before, fails.
C35_Witness ==
    /\ arg.fn = "NoMovement" /\ val # NoCall
    /\ arg.init = Hold(0, -1)
    /\ arg.frames = << Hold(1, -1), Hold(2, -1) >>
    /\ val.out[1].passed /\ ~val.out[2].passed
    /\ val.out[1].st = arg.init.cur
    /\ ~MeanDistOver(arg.frames[2].cur, arg.frames[1].cur, NoMovementThreshold)

Axial(d) == (d.x = 0) # (d.y = 0)

\* Ticks a < b < c of a staggered lift: on tick a three fingers come down on
\* the empty pad; up to tick b - 1 no finger comes down or lifts and the hand
\* moves, never backwards, along one axis, more than 10 mm in all; on tick b
\* one finger lifts, the mean of the other two being more than 10 mm from
\* where the mean of the three was on tick a; no finger comes down after
\* that, and on tick c the last finger lifts.
Staggered(a, b, c) ==
    /\ a < b /\ b < c /\ c <= Len(log)
    /\ log[a].plan.kind = "Land" /\ log[a].plan.k = 3 /\ log[a].opened
    /\ \A j \in a + 1 .. b - 1 :
          /\ log[j].plan.kind \in {"Move", "Rest"}
          /\ \/ log[j].mean = log[a].mean
             \/ /\ Axial(PSub(log[j].mean, log[a].mean))
                /\ Cardinal(PSub(log[j].mean, log[a].mean))
                       = Cardinal(PSub(log[b - 1].mean, log[a].mean))
          /\ LenSq(PSub(log[j].mean, log[a].mean))
                 >= LenSq(PSub(log[j - 1].mean, log[a].mean))
    /\ Axial(PSub(log[b - 1].mean, log[a].mean))
    /\ LongerThan(PSub(log[b - 1].mean, log[a].mean), MinLength)
    /\ log[b].plan.kind = "Lift" /\ log[b].num_down = 2
    /\ LongerThan(PSub(log[b].mean, log[a].mean), MinLength)
    /\ \A j \in b + 1 .. c - 1 : log[j].plan.kind # "Land" /\ log[j].num_down > 0
    /\ log[c].plan.kind = "Lift" /\ log[c].num_down = 0

Succeeding(tr) ==
    { id \in 1 .. Len(regs) : Called(tr, id, "Recognizer", "update", "Succeeded") }

\* C38: when the registered direction_swipe recognizers have pairwise
\* distinct finger counts, no Manager::update has two of them returning
\* Succeeded, and the gesture of the one that does is the value returned.
C38_NoLostGesture ==
    (\A i, j \in 1 .. Len(regs) : regs[i] = regs[j] => i = j) =>
        /\ Cardinality(Succeeding(trace)) <= 1
        /\ \A id \in Succeeding(trace) :
               winner = id /\ ret.num_fingers = regs[id] /\ ret.direction # "None"

\* C38 witness: recognizers for three and for four fingers are both in
\* active after the tick on which three fingers landed, and the one for three
\* fingers has just returned its Swipe, the other having failed on the way.
C38_Witness ==
    /\ regs = << 3, 4 >> /\ Len(log) = 4
    /\ log[1].active = << 1, 2 >>
    /\ Called(log[2].tr, 2, "Recognizer", "update", "Failed")
    /\ Succeeding(trace) = { 1 } /\ ret.num_fingers = 3 /\ lastEv = "Frame"

\* In the ticks lg, the last of which returned recognizer id's gesture: its
\* NFingers last succeeded on a tick n, and the first tick after n on which a
\* finger lifted is before the last tick.
LiftedEarlier(lg, id) ==
    \E n, l \in 1 .. Len(lg) - 1 :
        /\ n < l
        /\ Called(lg[n].tr, id, "NFingers", "update", "Succeeded")
        /\ \A j \in n + 1 .. Len(lg) :
               ~Called(lg[j].tr, id, "NFingers", "update", "Succeeded")
        /\ lg[l].plan.kind = "Lift"
        /\ \A j \in n + 1 .. l - 1 : lg[j].plan.kind # "Lift"

\* C39: a Manager::update that returns a gesture is given a frame with no
\* finger down and no finger newly down, and it is a later tick than the one
\* on which a finger first lifted after the recognizer's n fingers were
\* recognized.
C39_OffThePad ==
    [][(FrameStep /\ ret' # NoGesture) =>
           /\ man.frame.cur.num_down = 0
           /\ ~man.frame.touch_down
           /\ winner' \in 1 .. Len(regs)
           /\ LiftedEarlier(log', winner')]_vars

\* C39 witness: the lowest of three fingers lifted on tick 3 after a swipe,
\* the others on tick 4, on which the Swipe has just been returned, the pad
\* empty.
C39_Witness ==
    /\ ret # NoGesture /\ lastEv = "Frame" /\ Len(log) = 4
    /\ log[3].plan.kind = "Lift" /\ log[3].plan.k = 1 /\ log[3].num_down = 2
    /\ log[4].plan.kind = "Lift" /\ log[4].num_down = 0
    /\ LiftedEarlier(log, winner)
    /\ man.frame.cur.num_down = 0

\* In the ticks lg, between any two ticks on which recognizer id's node
\* returned Succeeded from update there is a tick on which it was initialized.
OncePerInit(lg, id, node) ==
    \A i, j \in 1 .. Len(lg) :
        (/\ i < j
         /\ Called(lg[i].tr, id, node, "update", "Succeeded")
         /\ Called(lg[j].tr, id, node, "update", "Succeeded")) =>
            \E k \in i + 1 .. j - 1 : Called(lg[k].tr, id, node, "init", NoVal)

\* C40: no Manager::update panics; on a frame boundary on which the
\* StraightSwipe (the FingersUp) of a recognizer returns Succeeded, the
\* SplitInput around it is the stage in turn and holds the value cached by
\* its init, and holds none afterwards; between two such ticks of one
\* recognizer the SplitInput was initialized again.  The recognizers are
\* pushed by main and first updated without a top-level init.
C40_CachePresent ==
    [][FrameStep =>
           /\ ~panicked'
           /\ \A id \in 1 .. Len(regs) :
                 /\ Called(trace', id, "StraightSwipe", "update", "Succeeded") =>
                        /\ \A r \in Holding(man, id) :
                               r.c1 /\ r.cs /\ ~r.c2 /\ r.ssc # "None"
                        /\ \A r \in Holding(man', id) : r.ssc = "None"
                 /\ Called(trace', id, "FingersUp", "update", "Succeeded") =>
                        /\ \A r \in Holding(man, id) : r.c2 /\ r.upc # "None"
                        /\ \A r \in Holding(man', id) : r.upc = "None"
                 /\ OncePerInit(log', id, "StraightSwipe")
                 /\ OncePerInit(log', id, "FingersUp")]_vars

\* C40 witness: the recognizer, pushed and never initialized before its
\* first update, has had its StraightSwipe and its FingersUp succeed in a
\* first window and again in a second one, and both caches are empty again.
C40_Witness ==
    /\ ~panicked /\ lastEv = "Frame" /\ ret # NoGesture
    /\ UpdateOnly(log[1].tr, 1)
    /\ Cardinality(TicksWhere(Len(log), 1, "StraightSwipe", "Succeeded")) = 2
    /\ Cardinality(TicksWhere(Len(log), 1, "FingersUp", "Succeeded")) = 2
    /\ Called(trace, 1, "FingersUp", "update", "Succeeded")
    /\ Held(1).ssc = "None" /\ Held(1).upc = "None"

====
